---- MODULE Spec2Model ----
(***************************************************************************)
(* A model of the quiver package (github.com/ushu/quiver): the library     *)
(* loader (ReadLibrary / ReadNotebook / ReadNote / ReadNoteResources), the *)
(* path validators and the notebook hierarchy walker.                      *)
(***************************************************************************)
EXTENDS Integers, Sequences, FiniteSets, TLC

VARIABLES
    lib,        \* the *Library the walker runs on
    notebooks,  \* WalkNotebooksHierarchy: the map UUID -> *Notebook
    heap,       \* the heap: backing arrays of slices, and the objects the loads allocate
    stack,      \* activation records of walkNotebooksHierarchy, innermost last
    rootIdx,    \* WalkNotebooksHierarchy: position in the range loop over the roots
    retv,       \* value returned by the call that finished last
    visits,     \* the calls made to the visitor f, in order
    wpc,        \* WalkNotebooksHierarchy: "idle", "loop", "wait", "returned", "panic"
    wret,       \* the error WalkNotebooksHierarchy returned
    fs,         \* the file tree found at the path a function is called with
    arg,        \* the receiver or the argument of a call that takes no path
    call,       \* the exported function called last, and its flag
    result,     \* what the call returned, with the file operations it made
    loads       \* the ReadLibrary calls running in goroutines, each with its locals

walkVars == <<lib, notebooks, heap, stack, rootIdx, retv, visits, wpc, wret>>

loadVars == <<fs, arg, call, result, loads>>

vars == <<walkVars, loadVars>>

----------------------------------------------------------------------------
(* Bounds *)

\* largest number of nodes of a declared forest
MaxNodes == 5

\* largest number of note directories of a notebook directory
MaxNotes == 3

\* largest number of notebook directories of a library directory
MaxNotebooks == 2

\* deepest nesting of directories below a resources directory
MaxResDepth == 1

\* largest number of bytes of the payload of a resource given to the codec
MaxBytes == 3

\* the width the model gives to an int64
IntBits == 16

\* the number of ReadLibrary calls running at the same time
MaxGoroutines == 2

----------------------------------------------------------------------------
(* Values *)

\* a nil pointer, a nil error
Nil == [nil |-> TRUE]

NoErr == Nil

GoError(msg) == [error |-> msg]

\* the errors a visitor may return
VisitorErrors == {GoError("visitor: first"), GoError("visitor: second")}

Max(a, b) == IF a >= b THEN a ELSE b

----------------------------------------------------------------------------
(* The data tree *)

NotebookMetadata(name, uuid) == [Name |-> name, UUID |-> uuid]

Notebook(metadata, notes) == [NotebookMetadata |-> metadata, Notes |-> notes]

NotebookHierarchyInfo(uuid, children) == [UUID |-> uuid, Children |-> children]

LibraryMetadata(children) == [Children |-> children]

Library(metadata, nbs) == [LibraryMetadata |-> metadata, Notebooks |-> nbs]

----------------------------------------------------------------------------
(* Go slices of strings: a slice is a window on a backing array of the heap *)

\* make([]string, 0): no backing array
EmptySlice == [arr |-> 0, len |-> 0, cap |-> 0]

SliceElems(h, s) == [k \in 1..s.len |-> h[s.arr][k]]

\* the capacities append may give a new backing array: the Go specification asks
\* only for a sufficiently large one, the gc runtime doubles small slices
NewCaps(oldcap, needed) == {needed, needed + 1, Max(needed, 2 * oldcap)}

\* append(s, x): the possible outcomes, each the new heap and the slice returned.
\* With spare capacity the element is written into the shared backing array.
GoAppend(h, s, x) ==
    IF s.len < s.cap
    THEN {[heap |-> [h EXCEPT ![s.arr][s.len + 1] = x],
           slice |-> [s EXCEPT !.len = s.len + 1]]}
    ELSE {[heap |-> Append(h, [k \in 1..c |->
                        IF k <= s.len THEN h[s.arr][k]
                        ELSE IF k = s.len + 1 THEN x ELSE ""]),
           slice |-> [arr |-> Len(h) + 1, len |-> s.len + 1, cap |-> c]]
          : c \in NewCaps(s.cap, s.len + 1)}

----------------------------------------------------------------------------
(* Library.WalkNotebooksHierarchy and walkNotebooksHierarchy *)

\* the map built from m.Notebooks: a later notebook replaces an earlier one
\* of the same UUID
BuildIndex(nbs) ==
    [u \in {nbs[i].NotebookMetadata.UUID : i \in 1..Len(nbs)} |->
        LET last == CHOOSE i \in 1..Len(nbs) :
                        /\ nbs[i].NotebookMetadata.UUID = u
                        /\ \A j \in (i + 1)..Len(nbs) : nbs[j].NotebookMetadata.UUID # u
        IN nbs[last]]

\* notebooks[u]: a missing key yields the zero value, a nil *Notebook
Lookup_ZeroValue(m, u) ==
    IF u \in DOMAIN m THEN m[u] ELSE Notebook(NotebookMetadata("", u), <<>>)

Lookup(m, u) == IF u \in DOMAIN m THEN m[u] ELSE Nil

\* the wrapper given to walkNotebooksHierarchy: pp[i] = notebooks[p]
ResolveParents(m, h, s) == [k \in 1..s.len |-> Lookup(m, SliceElems(h, s)[k])]

\* if err != nil { return err }
ShouldReturn_Ignore(err) == FALSE

ShouldReturn(err) == err # NoErr

\* the c of "for _, c := range n.Children", at the i-th iteration
ChildAt_Reversed(n, i) == n.Children[Len(n.Children) + 1 - i]

ChildAt(n, i) == n.Children[i]

\* the parents argument of the recursive call walkNotebooksHierarchy(c, p, f)
ChildParents_Shared(fr) == fr.parents

ChildParents(fr) == fr.p

Frame(n, parents, path) ==
    [n |-> n, parents |-> parents, p |-> EmptySlice, i |-> 1, pc |-> "call", path |-> path]

Top == stack[Len(stack)]

SetTop(fr) == [stack EXCEPT ![Len(stack)] = fr]

Pop == SubSeq(stack, 1, Len(stack) - 1)

NoPending == [pending |-> FALSE]

\* lines 303-308: index the notebooks, make the empty parents slice. Reading
\* n.UUID of a notebook without metadata, or m.LibraryMetadata.Children of a
\* library without metadata, is a nil dereference.
WalkStart ==
    /\ wpc = "idle"
    /\ IF \E i \in 1..Len(lib.Notebooks) : lib.Notebooks[i].NotebookMetadata = Nil
       THEN wpc' = "panic" /\ UNCHANGED notebooks
       ELSE IF lib.LibraryMetadata = Nil
       THEN wpc' = "panic" /\ notebooks' = BuildIndex(lib.Notebooks)
       ELSE wpc' = "loop" /\ notebooks' = BuildIndex(lib.Notebooks)
    /\ UNCHANGED <<lib, heap, stack, rootIdx, retv, visits, wret, loadVars>>

\* lines 309-310: the next root of the forest
RootCall ==
    /\ wpc = "loop"
    /\ rootIdx <= Len(lib.LibraryMetadata.Children)
    /\ stack' = <<Frame(ChildAt(lib.LibraryMetadata, rootIdx), EmptySlice, <<rootIdx>>)>>
    /\ rootIdx' = rootIdx + 1
    /\ wpc' = "wait"
    /\ UNCHANGED <<lib, notebooks, heap, retv, visits, wret, loadVars>>

\* lines 317-319: the walk of a root returned
RootReturned ==
    /\ wpc = "wait"
    /\ stack = <<>>
    /\ retv # NoPending
    /\ IF ShouldReturn(retv)
       THEN wpc' = "returned" /\ wret' = retv
       ELSE wpc' = "loop" /\ UNCHANGED wret
    /\ retv' = NoPending
    /\ UNCHANGED <<lib, notebooks, heap, stack, rootIdx, visits, loadVars>>

\* line 322
WalkReturn ==
    /\ wpc = "loop"
    /\ rootIdx > Len(lib.LibraryMetadata.Children)
    /\ wpc' = "returned"
    /\ wret' = NoErr
    /\ UNCHANGED <<lib, notebooks, heap, stack, rootIdx, retv, visits, loadVars>>

\* lines 326-329 with the wrapper of lines 310-316: f is called with the
\* notebook of n.UUID and the notebooks of the parents; the visitor answers
\* nil or an error
CallVisitor ==
    /\ stack # <<>>
    /\ Top.pc = "call"
    /\ \E e \in {NoErr} \cup VisitorErrors :
        /\ visits' = Append(visits,
              [path |-> Top.path, uuid |-> Top.n.UUID, slice |-> Top.parents,
               n |-> Lookup(notebooks, Top.n.UUID),
               parents |-> ResolveParents(notebooks, heap, Top.parents),
               err |-> e])
        /\ IF ShouldReturn(e)
           THEN stack' = Pop /\ retv' = e
           ELSE /\ stack' = SetTop([Top EXCEPT !.pc =
                        IF Len(Top.n.Children) > 0 THEN "append" ELSE "return"])
                /\ UNCHANGED retv
    /\ UNCHANGED <<lib, notebooks, heap, rootIdx, wpc, wret, loadVars>>

\* line 332: p := append(parents[:], n.UUID)
AppendParents ==
    /\ stack # <<>>
    /\ Top.pc = "append"
    /\ \E r \in GoAppend(heap, Top.parents, Top.n.UUID) :
        /\ heap' = r.heap
        /\ stack' = SetTop([Top EXCEPT !.p = r.slice, !.pc = "loop"])
    /\ UNCHANGED <<lib, notebooks, rootIdx, retv, visits, wpc, wret, loadVars>>

\* lines 333-334: the recursive call for the next child
Recurse ==
    /\ stack # <<>>
    /\ Top.pc = "loop"
    /\ Top.i <= Len(Top.n.Children)
    /\ stack' = Append(SetTop([Top EXCEPT !.pc = "wait", !.i = Top.i + 1]),
                       Frame(ChildAt(Top.n, Top.i), ChildParents(Top),
                             Append(Top.path, Top.i)))
    /\ UNCHANGED <<lib, notebooks, heap, rootIdx, retv, visits, wpc, wret, loadVars>>

\* lines 335-337: the recursive call returned
ChildReturned ==
    /\ stack # <<>>
    /\ Top.pc = "wait"
    /\ retv # NoPending
    /\ IF ShouldReturn(retv)
       THEN stack' = Pop /\ UNCHANGED retv
       ELSE stack' = SetTop([Top EXCEPT !.pc = "loop"]) /\ retv' = NoPending
    /\ UNCHANGED <<lib, notebooks, heap, rootIdx, visits, wpc, wret, loadVars>>

\* line 341: no child is left
NodeReturn ==
    /\ stack # <<>>
    /\ \/ Top.pc = "return"
       \/ Top.pc = "loop" /\ Top.i > Len(Top.n.Children)
    /\ stack' = Pop
    /\ retv' = NoErr
    /\ UNCHANGED <<lib, notebooks, heap, rootIdx, visits, wpc, wret, loadVars>>

NextWalk ==
    \/ WalkStart
    \/ RootCall
    \/ RootReturned
    \/ WalkReturn
    \/ CallVisitor
    \/ AppendParents
    \/ Recurse
    \/ ChildReturned
    \/ NodeReturn

----------------------------------------------------------------------------
(* The libraries the walker is run on *)

UUIDs == <<"U1", "U2", "U3", "U4", "U5", "U6", "U7", "U8", "U9", "U10">>

\* the forests of n nodes, without their UUIDs
RECURSIVE ShapesOfSize(_)
ShapesOfSize(n) ==
    IF n = 0 THEN {<<>>}
    ELSE UNION {{<<[Children |-> kids]>> \o rest :
                    kids \in ShapesOfSize(k - 1), rest \in ShapesOfSize(n - k)}
                : k \in 1..n}

RECURSIVE SizeOf(_)
SizeOf(f) == IF f = <<>> THEN 0 ELSE 1 + SizeOf(Head(f).Children) + SizeOf(Tail(f))

\* the forest of shape f whose k-th node in document order has UUID lab[first + k - 1]
RECURSIVE LabelForest(_, _, _)
LabelForest(f, first, lab) ==
    IF f = <<>> THEN <<>>
    ELSE <<NotebookHierarchyInfo(lab[first],
                LabelForest(Head(f).Children, first + 1, lab))>>
         \o LabelForest(Tail(f), first + 1 + SizeOf(Head(f).Children), lab)

\* every node its own UUID; or two UUIDs used in turn
Labelings ==
    {[k \in 1..MaxNodes |-> UUIDs[k]], [k \in 1..MaxNodes |-> UUIDs[((k - 1) % 2) + 1]]}

Forests ==
    UNION {{LabelForest(f, 1, lab) : f \in ShapesOfSize(n), lab \in Labelings}
           : n \in 0..MaxNodes}

NamedNotebook(k) == Notebook(NotebookMetadata(UUIDs[k], UUIDs[k]), <<>>)

\* Library.Notebooks: a notebook for every UUID; for every other UUID; two
\* notebooks of one UUID; none
NotebookLists ==
    { [k \in 1..MaxNodes |-> NamedNotebook(k)],
      [k \in 1..((MaxNodes + 1) \div 2) |-> NamedNotebook(2 * k - 1)],
      <<Notebook(NotebookMetadata("first", UUIDs[1]), <<>>),
        Notebook(NotebookMetadata("second", UUIDs[1]), <<>>), NamedNotebook(3)>>,
      <<>> }

WalkLibraries ==
    {Library(LibraryMetadata(f), nbs) : f \in Forests, nbs \in NotebookLists}
    \cup {Library(Nil, <<NamedNotebook(1)>>),
          Library(LibraryMetadata(<<NotebookHierarchyInfo(UUIDs[1], <<>>)>>),
                  <<NamedNotebook(1), Notebook(Nil, <<>>)>>)}

InitWalk ==
    /\ lib \in WalkLibraries
    /\ notebooks = <<>>
    /\ heap = <<>>
    /\ stack = <<>>
    /\ rootIdx = 1
    /\ retv = NoPending
    /\ visits = <<>>
    /\ wpc = "idle"
    /\ wret = NoErr
    /\ fs = Nil
    /\ arg = Nil
    /\ loads = <<>>
    /\ call = Nil
    /\ result = Nil

SpecWalk == InitWalk /\ [][NextWalk]_vars

----------------------------------------------------------------------------
(* The declared forest, as the claims about the walker speak of it *)

HasForest == lib.LibraryMetadata # Nil

WellFormed ==
    HasForest /\ \A i \in 1..Len(lib.Notebooks) : lib.Notebooks[i].NotebookMetadata # Nil

DeclaredForest == lib.LibraryMetadata.Children

\* a node is named by its path: the positions taken from the roots down to it
RECURSIVE NodePaths(_)
NodePaths(f) ==
    UNION {{<<i>>} \cup {<<i>> \o q : q \in NodePaths(f[i].Children)} : i \in 1..Len(f)}

RECURSIVE NodeAt(_, _)
NodeAt(f, path) ==
    IF Len(path) = 1 THEN f[path[1]] ELSE NodeAt(f[path[1]].Children, Tail(path))

IsProperPrefix(a, b) == Len(a) < Len(b) /\ SubSeq(b, 1, Len(a)) = a

\* a and b part at some position, a towards the earlier sibling
BranchesBefore(a, b) ==
    \E k \in 1..Len(a) :
        /\ k <= Len(b)
        /\ SubSeq(a, 1, k - 1) = SubSeq(b, 1, k - 1)
        /\ a[k] < b[k]

NotebooksOf(u) ==
    {lib.Notebooks[i] : i \in {j \in 1..Len(lib.Notebooks) :
                                  lib.Notebooks[j].NotebookMetadata.UUID = u}}

\* nb is what the UUID u resolves to in Library.Notebooks
Resolves(nb, u) == IF NotebooksOf(u) = {} THEN nb = Nil ELSE nb \in NotebooksOf(u)

Failed(i) == visits[i].err # NoErr

NoVisitorFailure == \A i \in 1..Len(visits) : ~Failed(i)

ReturnedNil == wpc = "returned" /\ wret = NoErr

\* C2: with a visitor that never fails the walker calls it exactly once per node
\* of the declared forest, in pre-order: a node before its descendants, siblings
\* in declared order, a subtree finished before the next sibling starts; the
\* number of calls is the number of nodes.
C2_PreOrderOncePerNode ==
    WellFormed =>
        /\ \A i \in 1..Len(visits) :
              /\ visits[i].path \in NodePaths(DeclaredForest)
              /\ visits[i].uuid = NodeAt(DeclaredForest, visits[i].path).UUID
        /\ \A i, j \in 1..Len(visits) :
              /\ i # j => visits[i].path # visits[j].path
              /\ IsProperPrefix(visits[i].path, visits[j].path) => i < j
              /\ BranchesBefore(visits[i].path, visits[j].path) => i < j
        /\ (ReturnedNil /\ NoVisitorFailure) =>
              Len(visits) = Cardinality(NodePaths(DeclaredForest))

\* a finished walk of a forest with a node that has two children, the first of
\* them with a child of its own
C2_Witness ==
    /\ WellFormed
    /\ ReturnedNil
    /\ \E i, j, k \in 1..Len(visits) :
          /\ IsProperPrefix(visits[i].path, visits[j].path)
          /\ IsProperPrefix(visits[j].path, visits[k].path)
          /\ \E l \in 1..Len(visits) :
                /\ Len(visits[l].path) = Len(visits[j].path)
                /\ BranchesBefore(visits[j].path, visits[l].path)

\* C3: the ancestors handed to the visitor are the notebooks of the UUIDs on
\* the path from the root of the node's tree to its parent, root first, and
\* nothing of a sibling or of an earlier branch.
C3_AncestorsAreThePath ==
    WellFormed =>
        \A i \in 1..Len(visits) :
            /\ Len(visits[i].parents) = Len(visits[i].path) - 1
            /\ \A k \in 1..(Len(visits[i].path) - 1) :
                  Resolves(visits[i].parents[k],
                           NodeAt(DeclaredForest, SubSeq(visits[i].path, 1, k)).UUID)

\* two nodes of different branches were given slices over the same cells of
\* one backing array, and different ancestors
C3_Witness ==
    \E i, j \in 1..Len(visits) :
        /\ i < j
        /\ visits[i].slice.arr = visits[j].slice.arr
        /\ visits[i].slice.len = visits[j].slice.len
        /\ visits[i].parents # visits[j].parents

\* C4: after the visitor fails no further call is made to it and the walker
\* returns that very error; it returns nil when the visitor never fails.
C4_ShortCircuit ==
    /\ \A i \in 1..Len(visits) : Failed(i) => i = Len(visits)
    /\ wpc = "returned" =>
          wret = (IF visits # <<>> /\ Failed(Len(visits))
                  THEN visits[Len(visits)].err ELSE NoErr)

\* the visitor failed below the root, at a node with children, before the
\* last node, and the walker has returned
C4_Witness ==
    /\ WellFormed
    /\ wpc = "returned"
    /\ wret \in VisitorErrors
    /\ Len(visits) > 2
    /\ Len(visits[Len(visits)].path) > 1
    /\ NodeAt(DeclaredForest, visits[Len(visits)].path).Children # <<>>
    /\ Len(visits) + 1 < Cardinality(NodePaths(DeclaredForest))

\* C5: a UUID of the hierarchy that no notebook carries is no failure: the
\* visitor is called with a nil notebook, finds nil at its place among the
\* ancestors of its descendants, and the rest of the forest is walked.
C5_MissingNotebookIsNil ==
    WellFormed =>
        /\ wpc # "panic"
        /\ \A i \in 1..Len(visits) :
              /\ NotebooksOf(visits[i].uuid) = {} => visits[i].n = Nil
              /\ NotebooksOf(visits[i].uuid) # {} => visits[i].n # Nil
              /\ \A k \in 1..Len(visits[i].parents) :
                    NotebooksOf(NodeAt(DeclaredForest, SubSeq(visits[i].path, 1, k)).UUID) = {}
                        => visits[i].parents[k] = Nil
        /\ wpc = "returned" =>
              \/ wret = NoErr /\ Len(visits) = Cardinality(NodePaths(DeclaredForest))
              \/ wret \in VisitorErrors /\ ~NoVisitorFailure

\* a finished walk that met a missing notebook with children, handed nil among
\* the ancestors, and went on to a node whose notebook exists
C5_Witness ==
    /\ WellFormed
    /\ ReturnedNil
    /\ \E i, j, k \in 1..Len(visits) :
          /\ i < j /\ j < k
          /\ visits[i].n = Nil
          /\ IsProperPrefix(visits[i].path, visits[j].path)
          /\ \E l \in 1..Len(visits[j].parents) : visits[j].parents[l] = Nil
          /\ ~IsProperPrefix(visits[i].path, visits[k].path)
          /\ visits[k].n # Nil

----------------------------------------------------------------------------
(* The file system: names, entries, and the os / ioutil calls the package makes *)

\* a file name is a sequence of pieces, the last of them its extension
HasSuffix(name, suffix) ==
    /\ Len(name) >= Len(suffix)
    /\ SubSeq(name, Len(name) - Len(suffix) + 1, Len(name)) = suffix

MetaJSON == <<"meta", ".json">>

ContentJSON == <<"content", ".json">>

ResourcesDir == <<"resources">>

\* the names of the model, in the byte order of their strings (upper case
\* before lower case), the order ioutil.ReadDir sorts by
ByteOrder ==
    << <<".DS_Store">>,
       <<"A", ".qvnote">>, <<"A", ".qvnotebook">>,
       <<"D", ".qvnote">>, <<"D", ".qvnotebook">>,
       <<"F", ".qvnote">>, <<"F", ".qvnotebook">>,
       <<"a", ".png">>, <<"another">>, ContentJSON, <<"gone">>, <<"loop">>, MetaJSON,
       <<"other">>, <<"p", ".qvnote">>, <<"p", ".qvnotebook">>, ResourcesDir, <<"sub">>,
       <<"z", ".qvnote">>, <<"z", ".qvnotebook">>, <<"z", ".txt">> >>

Rank(name) == CHOOSE k \in 1..Len(ByteOrder) : ByteOrder[k] = name

\* what a path can lead to
Absent(name) == [kind |-> "absent", name |-> name]

\* a symbolic link to nothing: listed in its directory, but stat and open fail
Dangling(name) == [kind |-> "dangling", name |-> name]

\* a symbolic link to itself: stat and open fail with ELOOP
Loop(name) == [kind |-> "loop", name |-> name]

\* a regular file; perm says whether it can be opened ("removed": it is there
\* for os.Stat and gone for os.Open), read whether reading it to the end
\* succeeds, data is its content
File(name, perm, read, data) ==
    [kind |-> "file", name |-> name, perm |-> perm, read |-> read, data |-> data]

\* a directory; perm says whether it can be listed
Dir(name, perm, entries) ==
    [kind |-> "dir", name |-> name, perm |-> perm, entries |-> entries]

ErrNotExist(path) == [error |-> "no such file or directory", path |-> path]

ErrLoop(path) == [error |-> "too many levels of symbolic links", path |-> path]

ErrPermission(path) == [error |-> "permission denied", path |-> path]

ErrIsDir(path) == [error |-> "is a directory", path |-> path]

ErrIO(path) == [error |-> "input/output error", path |-> path]

\* os.IsNotExist
IsNotExist(err) == err # NoErr /\ err.error = "no such file or directory"

\* filepath.Join(path, name)
Join(path, name) == Append(path, name)

\* the entry of directory d that Join(path, name) names
Resolve(d, name) ==
    IF d.kind = "dir" /\ \E e \in d.entries : e.name = name
    THEN CHOOSE e \in d.entries : e.name = name
    ELSE Absent(name)

\* one file operation of a call: what was done, on which path, with which error
Event(op, path, err) == [op |-> op, path |-> path, err |-> err]

\* os.Stat: the FileInfo, or the error
Stat(node, path) ==
    CASE node.kind \in {"absent", "dangling"} ->
            [info |-> Nil, err |-> ErrNotExist(path)]
      [] node.kind = "loop" -> [info |-> Nil, err |-> ErrLoop(path)]
      [] OTHER -> [info |-> [IsDir |-> node.kind = "dir", Name |-> node.name],
                   err |-> NoErr]

RECURSIVE SortByName(_)
SortByName(entries) ==
    IF entries = {} THEN <<>>
    ELSE LET first == CHOOSE e \in entries :
                          \A o \in entries : Rank(e.name) <= Rank(o.name)
         IN <<first>> \o SortByName(entries \ {first})

\* ioutil.ReadDir: the entries sorted by file name, or the error
ReadDir(node, path) ==
    IF node.perm = "denied"
    THEN [files |-> <<>>, err |-> ErrPermission(path)]
    ELSE [files |-> SortByName(node.entries), err |-> NoErr]

\* os.Open: a directory opens as well as a file
Open(node, path) ==
    CASE node.kind \in {"absent", "dangling"} -> ErrNotExist(path)
      [] node.kind = "loop" -> ErrLoop(path)
      [] node.perm = "denied" -> ErrPermission(path)
      [] node.perm = "removed" -> ErrNotExist(path)
      [] OTHER -> NoErr

\* reading an open file to its end
ReadAll(node, path) ==
    CASE node.kind = "dir" -> [data |-> <<>>, err |-> ErrIsDir(path)]
      [] node.read = "error" -> [data |-> <<>>, err |-> ErrIO(path)]
      [] OTHER -> [data |-> node.data, err |-> NoErr]

----------------------------------------------------------------------------
(* IsLibrary, IsNotebook, IsNote *)

\* what a function returned: its value, its error, the panic it ended in
\* instead of returning, and the file operations it made
Returned(val, err, trace) == [val |-> val, err |-> err, panic |-> Nil, trace |-> trace]

Panicked(msg, trace) == [val |-> Nil, err |-> NoErr, panic |-> GoError(msg), trace |-> trace]

\* errors.New("a Quiver Note should be a directory"), and the like
ErrNotDirectory(role) == [error |-> "should be a directory", role |-> role]

\* errors.New("a Quiver Note should have .qvnote extension"), and the like
ErrExtension(role, suffix) ==
    [error |-> "should have extension", role |-> role, suffix |-> suffix]

\* the three checks of a validator, in the order the code makes them
ValidatorChecks_SuffixFirst(st, suffix, role) ==
    IF st.err # NoErr THEN st.err
    ELSE IF ~HasSuffix(st.info.Name, suffix) THEN ErrExtension(role, suffix)
    ELSE IF ~st.info.IsDir THEN ErrNotDirectory(role)
    ELSE NoErr

ValidatorChecks(st, suffix, role) ==
    IF st.err # NoErr THEN st.err
    ELSE IF ~st.info.IsDir THEN ErrNotDirectory(role)
    ELSE IF ~HasSuffix(st.info.Name, suffix) THEN ErrExtension(role, suffix)
    ELSE NoErr

Validate(node, path, suffix, role) ==
    LET st == Stat(node, path)
        err == ValidatorChecks(st, suffix, role)
    IN Returned(err = NoErr, err,
                IF st.err # NoErr THEN <<Event("stat", path, st.err)>>
                ELSE <<Event("stat", path, NoErr), Event("check", path, err)>>)

IsLibrary(node, path) == Validate(node, path, <<".qvlibrary">>, "the Quiver Library")

IsNotebook(node, path) == Validate(node, path, <<".qvnotebook">>, "a Quiver Notebook")

IsNote(node, path) == Validate(node, path, <<".qvnote">>, "a Quiver Note")

----------------------------------------------------------------------------
(* JSON documents and the decoding encoding/json does into the metadata types *)

JNull == [t |-> "null"]

JString(v) == [t |-> "string", s |-> v]

JNumber(v) == [t |-> "number", n |-> v]

JArray(v) == [t |-> "array", a |-> v]

\* an object: its members as a record
JObject(v) == [t |-> "object", v |-> v]

\* bytes that are no JSON text
Garbage == [t |-> "garbage"]

\* a member the object does not have
JMissing == [t |-> "missing"]

ErrSyntax == GoError("invalid character")

ErrUnmarshalType(type) == [error |-> "json: cannot unmarshal", type |-> type]

Decoded(val, err) == [val |-> val, err |-> err]

Member(j, key) == IF key \in DOMAIN j.v THEN j.v[key] ELSE JMissing

Untouched(j) == j.t \in {"null", "missing"}

\* the first error of a sequence of decoding results
RECURSIVE FirstErr(_)
FirstErr(rs) ==
    IF rs = <<>> THEN NoErr
    ELSE IF Head(rs).err # NoErr THEN Head(rs).err ELSE FirstErr(Tail(rs))

DecodeString(j) ==
    CASE j.t = "string" -> Decoded(j.s, NoErr)
      [] Untouched(j) -> Decoded("", NoErr)
      [] OTHER -> Decoded("", ErrUnmarshalType("string"))

DecodeStrings(j) ==
    CASE j.t = "array" ->
            LET rs == [k \in 1..Len(j.a) |-> DecodeString(j.a[k])]
            IN Decoded([k \in 1..Len(rs) |-> rs[k].val], FirstErr(rs))
      [] Untouched(j) -> Decoded(<<>>, NoErr)
      [] OTHER -> Decoded(<<>>, ErrUnmarshalType("[]string"))

\* the values of an int64, and the wrap-around of its arithmetic
Int64 == (0 - 2^(IntBits - 1))..(2^(IntBits - 1) - 1)

WrapInt64(n) == ((n + 2^(IntBits - 1)) % 2^IntBits) - 2^(IntBits - 1)

\* package time counts seconds from January 1 of year 1: 719162 days before
\* the Unix epoch, of 86400 seconds each
UnixToInternal == ((((719162 % 2^IntBits) * 864) % 2^IntBits) * 100) % 2^IntBits

\* time.Unix(secs, 0)
TimeUnix(secs) == [ext |-> WrapInt64(secs + UnixToInternal), nsec |-> 0]

\* Time.Unix(): the seconds since the Unix epoch, the nanoseconds left out
TimeUnixSeconds_Rounded(t) ==
    WrapInt64(t.ext - UnixToInternal + (IF t.nsec >= 500000000 THEN 1 ELSE 0))

TimeUnixSeconds(t) == WrapInt64(t.ext - UnixToInternal)

\* time.Time{}, the value of a TimeStamp never decoded
ZeroTime == [ext |-> 0, nsec |-> 0]

\* TimeStamp.MarshalJSON: json.Marshal of the Unix seconds
TimeStampMarshalJSON(u) == Decoded(JNumber(TimeUnixSeconds(u)), NoErr)

\* TimeStamp.UnmarshalJSON: json.Unmarshal into an int64, then time.Unix(secs, 0);
\* a number that is no int64 is refused, null leaves secs at 0, and the method
\* is not called for a member the object does not have
TimeStampUnmarshalJSON(j) ==
    CASE j.t = "number" /\ j.n \in Int64 -> Decoded(TimeUnix(j.n), NoErr)
      [] j.t = "null" -> Decoded(TimeUnix(0), NoErr)
      [] j.t = "missing" -> Decoded(ZeroTime, NoErr)
      [] j.t = "garbage" -> Decoded(ZeroTime, ErrSyntax)
      [] OTHER -> Decoded(ZeroTime, ErrUnmarshalType("int64"))

DecodeCell(j) ==
    CASE j.t = "object" ->
            LET type == DecodeString(Member(j, "type"))
                language == DecodeString(Member(j, "language"))
                diagramType == DecodeString(Member(j, "diagramType"))
                data == DecodeString(Member(j, "data"))
            IN Decoded([Type |-> type.val, Language |-> language.val,
                        DiagramType |-> diagramType.val, Data |-> data.val],
                       FirstErr(<<type, language, diagramType, data>>))
      [] j.t = "null" -> Decoded(Nil, NoErr)
      [] OTHER -> Decoded(Nil, ErrUnmarshalType("Cell"))

DecodeCells(j) ==
    CASE j.t = "array" ->
            LET rs == [k \in 1..Len(j.a) |-> DecodeCell(j.a[k])]
            IN Decoded([k \in 1..Len(rs) |-> rs[k].val], FirstErr(rs))
      [] Untouched(j) -> Decoded(<<>>, NoErr)
      [] OTHER -> Decoded(<<>>, ErrUnmarshalType("[]*Cell"))

RECURSIVE DecodeHierarchy(_)
DecodeHierarchy(j) ==
    CASE j.t = "array" ->
            LET rs == [k \in 1..Len(j.a) |->
                        CASE j.a[k].t = "object" ->
                                LET uuid == DecodeString(Member(j.a[k], "uuid"))
                                    children == DecodeHierarchy(Member(j.a[k], "children"))
                                IN Decoded(NotebookHierarchyInfo(uuid.val, children.val),
                                           FirstErr(<<uuid, children>>))
                          [] j.a[k].t = "null" ->
                                Decoded(NotebookHierarchyInfo("", <<>>), NoErr)
                          [] OTHER ->
                                Decoded(NotebookHierarchyInfo("", <<>>),
                                        ErrUnmarshalType("NotebookHierarchyInfo"))]
            IN Decoded([k \in 1..Len(rs) |-> rs[k].val], FirstErr(rs))
      [] Untouched(j) -> Decoded(<<>>, NoErr)
      [] OTHER -> Decoded(<<>>, ErrUnmarshalType("[]NotebookHierarchyInfo"))

NoteMetadata(createdAt, tags, title, updatedAt, uuid) ==
    [CreatedAt |-> createdAt, Tags |-> tags, Title |-> title,
     UpdatedAt |-> updatedAt, UUID |-> uuid]

NoteContent(cells) == [Cells |-> cells]

\* d.Decode(m) into a new struct: the struct and a nil error, or nil and the
\* error. rd is what reading the stream to its end gives.
DecodeStruct(rd, type, fields, value) ==
    CASE rd.err # NoErr -> Decoded(Nil, rd.err)
      [] rd.data.t = "garbage" -> Decoded(Nil, ErrSyntax)
      [] rd.data.t \in {"object", "null"} ->
            IF FirstErr(fields) # NoErr THEN Decoded(Nil, FirstErr(fields))
            ELSE Decoded(value, NoErr)
      [] OTHER -> Decoded(Nil, ErrUnmarshalType(type))

MemberOf(rd, key) ==
    IF rd.err = NoErr /\ rd.data.t = "object" THEN Member(rd.data, key) ELSE JMissing

ParseLibraryMetadata(rd) ==
    LET children == DecodeHierarchy(MemberOf(rd, "children"))
    IN DecodeStruct(rd, "LibraryMetadata", <<children>>, LibraryMetadata(children.val))

ParseNotebookMetadata(rd) ==
    LET name == DecodeString(MemberOf(rd, "name"))
        uuid == DecodeString(MemberOf(rd, "uuid"))
    IN DecodeStruct(rd, "NotebookMetadata", <<name, uuid>>,
                    NotebookMetadata(name.val, uuid.val))

ParseNoteMetadata(rd) ==
    LET createdAt == TimeStampUnmarshalJSON(MemberOf(rd, "created_at"))
        tags == DecodeStrings(MemberOf(rd, "tags"))
        title == DecodeString(MemberOf(rd, "title"))
        updatedAt == TimeStampUnmarshalJSON(MemberOf(rd, "updated_at"))
        uuid == DecodeString(MemberOf(rd, "uuid"))
    IN DecodeStruct(rd, "NoteMetadata", <<createdAt, tags, title, updatedAt, uuid>>,
                    NoteMetadata(createdAt.val, tags.val, title.val, updatedAt.val,
                                 uuid.val))

ParseContent(rd) ==
    LET cells == DecodeCells(MemberOf(rd, "cells"))
    IN DecodeStruct(rd, "NoteContent", <<cells>>, NoteContent(cells.val))

----------------------------------------------------------------------------
(* Reading one file: open, decode, close *)

\* os.Open, bufio.NewReader, Parse..., and the deferred Close
ReadJSONFile(node, path, Parse(_)) ==
    LET oerr == Open(node, path)
    IN IF oerr # NoErr THEN Returned(Nil, oerr, <<Event("open", path, oerr)>>)
       ELSE LET r == Parse(ReadAll(node, path))
            IN Returned(r.val, r.err,
                        <<Event("open", path, NoErr), Event("decode", path, r.err),
                          Event("close", path, NoErr)>>)

ReadLibraryMetadata(node, path) == ReadJSONFile(node, path, ParseLibraryMetadata)

ReadNotebookMetadata(node, path) == ReadJSONFile(node, path, ParseNotebookMetadata)

ReadNoteMetadata(node, path) == ReadJSONFile(node, path, ParseNoteMetadata)

ReadNoteContent(node, path) == ReadJSONFile(node, path, ParseContent)

----------------------------------------------------------------------------
(* ReadNoteResources and ReadNote *)

NoteResource(name, rel, data) == [Name |-> name, Rel |-> rel, Data |-> data]

Note(metadata, content, resources) ==
    [NoteMetadata |-> metadata, NoteContent |-> content, Resources |-> resources]

ErrResourcesNotDir == GoError("quiver Note Resources should be held in a directory")

\* a callee's result after the file operations made before it
After(trace, r) == [r EXCEPT !.trace = trace \o @]

\* lines 507-508: buf, err := ioutil.ReadAll(f); f.Close()
ReadFileEvents_CloseOnSuccess(fp, err) ==
    IF err # NoErr THEN <<Event("read", fp, err)>>
    ELSE <<Event("read", fp, err), Event("close", fp, NoErr)>>

ReadFileEvents(fp, err) == <<Event("read", fp, err), Event("close", fp, NoErr)>>

\* line 495: rp := filepath.Join(rel, name)
ChildRel_Same(rel, name) == rel

ChildRel(rel, name) == Join(rel, name)

RECURSIVE ReadNoteResources(_, _, _)
RECURSIVE ResourcesLoop(_, _, _, _, _, _)

\* lines 486-516: the loop over the entries of a resources directory; rel is
\* the sequence of directory names below the resources root
ResourcesLoop(files, i, path, rel, res, trace) ==
    IF i > Len(files) THEN Returned(res, NoErr, trace)
    ELSE
      LET file == files[i]
          name == file.name
          fp == Join(path, name)
          st == Stat(file, fp)
          t1 == Append(trace, Event("stat", fp, st.err))
      IN IF st.err # NoErr THEN Returned(<<>>, st.err, t1)
         ELSE IF st.info.IsDir
         THEN LET r == ReadNoteResources(file, fp, ChildRel(rel, name))
              IN IF r.err # NoErr THEN Returned(<<>>, r.err, t1 \o r.trace)
                 ELSE ResourcesLoop(files, i + 1, path, rel, res \o r.val,
                                    t1 \o r.trace)
         ELSE LET oerr == Open(file, fp)
                  t2 == Append(t1, Event("open", fp, oerr))
              IN IF oerr # NoErr THEN Returned(<<>>, oerr, t2)
                 ELSE LET rd == ReadAll(file, fp)
                          t3 == t2 \o ReadFileEvents(fp, rd.err)
                      IN IF rd.err # NoErr THEN Returned(<<>>, rd.err, t3)
                         ELSE ResourcesLoop(files, i + 1, path, rel,
                                  Append(res, NoteResource(name, rel, rd.data)), t3)

\* lines 471-519
ReadNoteResources(node, path, rel) ==
    LET st == Stat(node, path)
        t1 == <<Event("stat", path, st.err)>>
    IN IF st.err # NoErr THEN Returned(<<>>, st.err, t1)
       ELSE IF ~st.info.IsDir
       THEN Returned(<<>>, ErrResourcesNotDir,
                     Append(t1, Event("check", path, ErrResourcesNotDir)))
       ELSE LET ls == ReadDir(node, path)
                t2 == Append(t1, Event("readdir", path, ls.err))
            IN IF ls.err # NoErr THEN Returned(<<>>, ls.err, t2)
               ELSE ResourcesLoop(ls.files, 1, path, rel, <<>>, t2)

\* line 458: if loadResources
LoadsResources_Always(loadResources) == TRUE

LoadsResources(loadResources) == loadResources

\* line 462: err != nil && !os.IsNotExist(err)
ResourcesErrorIsFatal(err) == err # NoErr /\ ~IsNotExist(err)

\* lines 437-468
ReadNote(node, path, loadResources) ==
    LET v == IsNote(node, path)
        mp == Join(path, MetaJSON)
        m == ReadNoteMetadata(Resolve(node, MetaJSON), mp)
        cp == Join(path, ContentJSON)
        c == ReadNoteContent(Resolve(node, ContentJSON), cp)
        rp == Join(path, ResourcesDir)
        r == ReadNoteResources(Resolve(node, ResourcesDir), rp, <<>>)
    IN IF v.err # NoErr THEN Returned(Nil, v.err, v.trace)
       ELSE IF m.err # NoErr THEN Returned(Nil, m.err, v.trace \o m.trace)
       ELSE IF c.err # NoErr THEN Returned(Nil, c.err, v.trace \o m.trace \o c.trace)
       ELSE IF ~LoadsResources(loadResources)
       THEN Returned(Note(m.val, c.val, <<>>), NoErr, v.trace \o m.trace \o c.trace)
       ELSE IF ResourcesErrorIsFatal(r.err)
       THEN Returned(Nil, r.err, v.trace \o m.trace \o c.trace \o r.trace)
       ELSE Returned(Note(m.val, c.val, r.val), NoErr,
                     v.trace \o m.trace \o c.trace \o r.trace)

----------------------------------------------------------------------------
(* ReadNotebook and ReadLibrary *)

\* lines 392-396: notes := make([]*Note, numNotes)
MakeNotes(files) ==
    LET numNotes == IF Len(files) > 1 THEN Len(files) - 1 ELSE 0
    IN [k \in 1..numNotes |-> Nil]

\* lines 397-411: the loop over the entries of a notebook directory; the i-th
\* entry (from 1) is stored at the i-th place of notes, and a place that notes
\* does not have is an index out of range
RECURSIVE NotebookLoop(_, _, _, _, _, _, _)
RECURSIVE AfterReadNotebookMetadata(_, _, _, _, _, _, _)
RECURSIVE AfterReadNote(_, _, _, _, _, _, _, _)
NotebookLoop(files, i, path, loadResources, metadata, notes, trace) ==
    IF i > Len(files) THEN Returned(Notebook(metadata, notes), NoErr, trace)
    ELSE IF files[i].name = MetaJSON
    THEN AfterReadNotebookMetadata(files, i, path, loadResources, notes, trace,
             ReadNotebookMetadata(files[i], Join(path, files[i].name)))
    ELSE AfterReadNote(files, i, path, loadResources, metadata, notes, trace,
             ReadNote(files[i], Join(path, files[i].name), loadResources))

\* lines 401-404: m is what ReadNotebookMetadata returned for the i-th entry
AfterReadNotebookMetadata(files, i, path, loadResources, notes, trace, m) ==
    IF m.err # NoErr THEN Returned(Nil, m.err, trace \o m.trace)
    ELSE NotebookLoop(files, i + 1, path, loadResources, m.val, notes, trace \o m.trace)

\* lines 406-410: n is what ReadNote returned for the i-th entry
AfterReadNote(files, i, path, loadResources, metadata, notes, trace, n) ==
    IF n.err # NoErr THEN Returned(Nil, n.err, trace \o n.trace)
    ELSE IF i > Len(notes) THEN Panicked("index out of range", trace \o n.trace)
    ELSE NotebookLoop(files, i + 1, path, loadResources, metadata,
                      [notes EXCEPT ![i] = n.val], trace \o n.trace)

\* lines 379-414
ReadNotebook(node, path, loadResources) ==
    LET v == IsNotebook(node, path)
        ls == ReadDir(node, path)
        t2 == Append(v.trace, Event("readdir", path, ls.err))
    IN IF v.err # NoErr THEN Returned(Nil, v.err, v.trace)
       ELSE IF ls.err # NoErr THEN Returned(Nil, ls.err, t2)
       ELSE NotebookLoop(ls.files, 1, path, loadResources, Nil, MakeNotes(ls.files), t2)

\* line 282: f.Name() == "meta.json"
IsLibraryMetadataEntry(f) == f.name = MetaJSON

\* line 293: notebooks = append(notebooks, n)
AddNotebook_InFront(nbs, n) == <<n>> \o nbs

AddNotebook(nbs, n) == Append(nbs, n)

\* lines 278-295: the loop over the entries of a library directory
RECURSIVE LibraryLoop(_, _, _, _, _, _, _)
RECURSIVE AfterReadLibraryMetadata(_, _, _, _, _, _, _)
RECURSIVE AfterReadNotebook(_, _, _, _, _, _, _, _)
LibraryLoop(files, i, path, loadResources, metadata, nbs, trace) ==
    IF i > Len(files) THEN Returned(Library(metadata, nbs), NoErr, trace)
    ELSE IF IsLibraryMetadataEntry(files[i])
    THEN AfterReadLibraryMetadata(files, i, path, loadResources, nbs, trace,
             ReadLibraryMetadata(files[i], Join(path, files[i].name)))
    ELSE AfterReadNotebook(files, i, path, loadResources, metadata, nbs, trace,
             ReadNotebook(files[i], Join(path, files[i].name), loadResources))

\* lines 283-286: m is what ReadLibraryMetadata returned for the i-th entry
AfterReadLibraryMetadata(files, i, path, loadResources, nbs, trace, m) ==
    IF m.err # NoErr THEN Returned(Nil, m.err, trace \o m.trace)
    ELSE LibraryLoop(files, i + 1, path, loadResources, m.val, nbs, trace \o m.trace)

\* lines 289-293: n is what ReadNotebook returned for the i-th entry, or the
\* panic it ended in
AfterReadNotebook(files, i, path, loadResources, metadata, nbs, trace, n) ==
    IF n.panic # Nil THEN After(trace, n)
    ELSE IF n.err # NoErr THEN Returned(Nil, n.err, trace \o n.trace)
    ELSE LibraryLoop(files, i + 1, path, loadResources, metadata,
                     AddNotebook(nbs, n.val), trace \o n.trace)

\* lines 264-298
ReadLibrary(node, path, loadResources) ==
    LET v == IsLibrary(node, path)
        ls == ReadDir(node, path)
        t2 == Append(v.trace, Event("readdir", path, ls.err))
    IN IF v.err # NoErr THEN Returned(Nil, v.err, v.trace)
       ELSE IF ls.err # NoErr THEN Returned(Nil, ls.err, t2)
       ELSE LibraryLoop(ls.files, 1, path, loadResources, Nil, <<>>, t2)

----------------------------------------------------------------------------
(* The file trees the functions are called on *)

JSONFile(name, doc) == File(name, "ok", "ok", doc)

NoteMetadataDoc(stem) ==
    JObject([uuid |-> JString(stem), title |-> JString(stem),
             tags |-> JArray(<<JString("retest"), JString("tags")>>),
             created_at |-> JNumber(1), updated_at |-> JNumber(2)])

NoteContentDoc ==
    JObject([cells |-> JArray(<<JObject([type |-> JString("markdown"),
                                         data |-> JString("text")])>>)])

NotebookMetadataDoc(stem) == JObject([name |-> JString(stem), uuid |-> JString(stem)])

LibraryMetadataDoc ==
    JObject([children |-> JArray(<<
        JObject([uuid |-> JString("A"),
                 children |-> JArray(<<JObject([uuid |-> JString("z")])>>)]),
        JObject([uuid |-> JString("D"), children |-> JArray(<<>>)])>>)])

\* the entries a directory below resources may hold, sub-directories nested
\* at most depth deep
RECURSIVE ResourceEntries(_)
RECURSIVE ResourceDirs(_, _)
ResourceEntries(depth) ==
    {File(<<"a", ".png">>, "ok", "ok", <<137, 80>>),
     File(<<"a", ".png">>, "denied", "ok", <<137, 80>>),
     File(<<"a", ".png">>, "removed", "ok", <<137, 80>>),
     File(<<"a", ".png">>, "ok", "error", <<137, 80>>),
     File(<<"z", ".txt">>, "ok", "ok", <<104>>),
     Dangling(<<"gone">>),
     Loop(<<"loop">>),
     Dir(<<"sub">>, "denied", {})}
    \cup (IF depth = 0 THEN {} ELSE ResourceDirs(<<"sub">>, depth - 1))

\* directories of at most two entries
ResourceDirs(name, depth) ==
    LET pool == ResourceEntries(depth)
    IN {Dir(name, "ok", {})}
       \cup UNION {{Dir(name, "ok", {e1, e2}) :
                        e2 \in {e \in pool : e = e1 \/ e.name # e1.name}}
                    : e1 \in pool}

\* what the name "resources" may lead to in a note directory
ResourcesVariants ==
    {File(ResourcesDir, "ok", "ok", <<>>), Dangling(ResourcesDir), Loop(ResourcesDir),
     Dir(ResourcesDir, "denied", {})}
    \cup ResourceDirs(ResourcesDir, MaxResDepth)

NoteName(stem) == <<stem, ".qvnote">>

NoteDir(stem, entries) == Dir(NoteName(stem), "ok", entries)

GoodNoteFiles(stem) ==
    {JSONFile(MetaJSON, NoteMetadataDoc(stem)), JSONFile(ContentJSON, NoteContentDoc)}

\* note directories with every kind of resources tree, and with every kind of
\* meta.json and content.json
NoteRoots ==
    {NoteDir("A", GoodNoteFiles("A"))}
    \cup {NoteDir("A", GoodNoteFiles("A") \cup {r}) : r \in ResourcesVariants}
    \cup {NoteDir("A", {m, c}) :
            m \in {JSONFile(MetaJSON, NoteMetadataDoc("A")), JSONFile(MetaJSON, Garbage),
                   JSONFile(MetaJSON, JNull), JSONFile(MetaJSON, JArray(<<>>)),
                   File(MetaJSON, "denied", "ok", Garbage), Dir(MetaJSON, "ok", {}),
                   File(<<"other">>, "ok", "ok", Garbage)},
            c \in {JSONFile(ContentJSON, NoteContentDoc), JSONFile(ContentJSON, Garbage),
                   File(ContentJSON, "ok", "error", NoteContentDoc),
                   File(<<"another">>, "ok", "ok", Garbage)}}

\* the notes found inside the notebooks of the model
NotesInNotebooks(stem) ==
    {NoteDir(stem, GoodNoteFiles(stem)),
     NoteDir(stem, GoodNoteFiles(stem) \cup
        {Dir(ResourcesDir, "ok", {File(<<"a", ".png">>, "ok", "ok", <<137, 80>>)})}),
     NoteDir(stem, GoodNoteFiles(stem) \cup
        {Dir(ResourcesDir, "ok", {File(<<"a", ".png">>, "ok", "ok", <<137, 80>>),
                                  Dangling(<<"gone">>)})}),
     NoteDir(stem, {JSONFile(ContentJSON, NoteContentDoc)}),
     File(NoteName(stem), "ok", "ok", Garbage)}

NoteStems == <<"A", "z", "D", "p">>

NotebookStems == <<"A", "z", "D", "p">>

\* the sets of notes that take, for each of the first n stems, no note or one
RECURSIVE NoteChoices(_)
NoteChoices(n) ==
    IF n = 0 THEN {{}}
    ELSE {rest \cup pick : rest \in NoteChoices(n - 1),
                           pick \in {{}} \cup {{e} : e \in NotesInNotebooks(NoteStems[n])}}

NotebookName(stem) == <<stem, ".qvnotebook">>

NotebookMetaVariants(stem) ==
    {{}, {JSONFile(MetaJSON, NotebookMetadataDoc(stem))}, {JSONFile(MetaJSON, Garbage)},
     {File(MetaJSON, "denied", "ok", Garbage)}}

NotebookRoots ==
    {Dir(NotebookName("A"), "ok", m \cup notes) :
        m \in NotebookMetaVariants("A"), notes \in NoteChoices(MaxNotes)}
    \cup {Dir(NotebookName("A"), "denied", {})}

\* the notebooks found inside the libraries of the model
NotebooksInLibraries(stem) ==
    LET good == JSONFile(MetaJSON, NotebookMetadataDoc(stem))
        first == NoteDir("A", GoodNoteFiles("A"))
        last == NoteDir("z", GoodNoteFiles("z"))
        dangling == NoteDir("A", GoodNoteFiles("A") \cup
                       {Dir(ResourcesDir, "ok", {Dangling(<<"gone">>)})})
        broken == NoteDir("A", {JSONFile(MetaJSON, NoteMetadataDoc("A"))})
    IN {Dir(NotebookName(stem), "ok", es) :
            es \in {{}, {good}, {good, first}, {good, last}, {good, dangling},
                    {good, broken}, {first}}}
       \cup {Dir(NotebookName(stem), "denied", {}),
             File(NotebookName(stem), "ok", "ok", Garbage)}

RECURSIVE NotebookChoices(_)
NotebookChoices(n) ==
    IF n = 0 THEN {{}}
    ELSE {rest \cup pick : rest \in NotebookChoices(n - 1),
                           pick \in {{}} \cup {{e} : e \in NotebooksInLibraries(NotebookStems[n])}}

LibraryName == <<"Quiver", ".qvlibrary">>

LibraryRoots ==
    {Dir(LibraryName, "ok", m \cup other \cup nbs) :
        m \in {{}, {JSONFile(MetaJSON, LibraryMetadataDoc)}, {JSONFile(MetaJSON, Garbage)},
               {File(MetaJSON, "denied", "ok", Garbage)}},
        other \in {{}, {File(<<".DS_Store">>, "ok", "ok", Garbage)}},
        nbs \in NotebookChoices(MaxNotebooks)}
    \cup {Dir(LibraryName, "denied", {})}

\* paths of every kind under the names the validators tell apart
OtherNames ==
    {<<"x", ".qvlibrary">>, <<"x", ".qvnotebook">>, <<"x", ".qvnote">>, <<"x">>,
     <<"x", ".qvnote", ".bak">>, <<".qvnote">>}

OtherRoots ==
    UNION {{Absent(n), Dangling(n), Loop(n), File(n, "ok", "ok", Garbage),
            Dir(n, "ok", {})} : n \in OtherNames}

Roots ==
    NoteRoots \cup NotebookRoots \cup LibraryRoots \cup ResourcesVariants \cup OtherRoots

RootPath == <<fs.name>>

----------------------------------------------------------------------------
(* Calls of the exported functions *)

Called(fn, loadResources) == [fn |-> fn, loadResources |-> loadResources]

\* the function called last, and whether it returned without error
Finished(fn) == call # Nil /\ call.fn = fn

Succeeded == result.panic = Nil /\ result.err = NoErr

CallIsLibrary ==
    /\ call = Nil
    /\ call' = Called("IsLibrary", FALSE)
    /\ result' = IsLibrary(fs, RootPath)
    /\ UNCHANGED <<fs, arg, loads, walkVars>>

CallIsNotebook ==
    /\ call = Nil
    /\ call' = Called("IsNotebook", FALSE)
    /\ result' = IsNotebook(fs, RootPath)
    /\ UNCHANGED <<fs, arg, loads, walkVars>>

CallIsNote ==
    /\ call = Nil
    /\ call' = Called("IsNote", FALSE)
    /\ result' = IsNote(fs, RootPath)
    /\ UNCHANGED <<fs, arg, loads, walkVars>>

CallReadLibrary ==
    /\ call = Nil
    /\ \E loadResources \in BOOLEAN :
        /\ call' = Called("ReadLibrary", loadResources)
        /\ result' = ReadLibrary(fs, RootPath, loadResources)
    /\ UNCHANGED <<fs, arg, loads, walkVars>>

CallReadNotebook ==
    /\ call = Nil
    /\ \E loadResources \in BOOLEAN :
        /\ call' = Called("ReadNotebook", loadResources)
        /\ result' = ReadNotebook(fs, RootPath, loadResources)
    /\ UNCHANGED <<fs, arg, loads, walkVars>>

CallReadNote ==
    /\ call = Nil
    /\ \E loadResources \in BOOLEAN :
        /\ call' = Called("ReadNote", loadResources)
        /\ result' = ReadNote(fs, RootPath, loadResources)
    /\ UNCHANGED <<fs, arg, loads, walkVars>>

\* ReadNoteResources(path, ""), as ReadNote calls it
CallReadNoteResources ==
    /\ call = Nil
    /\ call' = Called("ReadNoteResources", TRUE)
    /\ result' = ReadNoteResources(fs, RootPath, <<>>)
    /\ UNCHANGED <<fs, arg, loads, walkVars>>

Next ==
    \/ CallIsLibrary
    \/ CallIsNotebook
    \/ CallIsNote
    \/ CallReadLibrary
    \/ CallReadNotebook
    \/ CallReadNote
    \/ CallReadNoteResources

Init ==
    /\ fs \in Roots
    /\ arg = Nil
    /\ loads = <<>>
    /\ call = Nil
    /\ result = Nil
    /\ lib = Nil
    /\ notebooks = <<>>
    /\ heap = <<>>
    /\ stack = <<>>
    /\ rootIdx = 1
    /\ retv = NoPending
    /\ visits = <<>>
    /\ wpc = "idle"
    /\ wret = NoErr

Spec == Init /\ [][Next]_vars

----------------------------------------------------------------------------
(* NoteResource.MarshalJSON and NoteResource.UnmarshalJSON *)

\* A string is a sequence of pieces: "data:", a MIME type, "," and characters.

\* the alphabet of base64.RawURLEncoding
Base64URL ==
    <<"A", "B", "C", "D", "E", "F", "G", "H", "I", "J", "K", "L", "M", "N", "O", "P",
      "Q", "R", "S", "T", "U", "V", "W", "X", "Y", "Z", "a", "b", "c", "d", "e", "f",
      "g", "h", "i", "j", "k", "l", "m", "n", "o", "p", "q", "r", "s", "t", "u", "v",
      "w", "x", "y", "z", "0", "1", "2", "3", "4", "5", "6", "7", "8", "9", "-", "_">>

Base64Char(sextet) == Base64URL[sextet + 1]

Base64Value(c) == (CHOOSE k \in 1..64 : Base64URL[k] = c) - 1

IsBase64Char(c) == \E k \in 1..64 : Base64URL[k] = c

\* base64.RawURLEncoding.EncodeToString: three bytes give four characters, one
\* or two bytes left over give two or three, and no padding is written
RECURSIVE EncodeToString(_)
EncodeToString(src) ==
    CASE Len(src) = 0 -> <<>>
      [] Len(src) = 1 ->
            <<Base64Char(src[1] \div 4), Base64Char((src[1] % 4) * 16)>>
      [] Len(src) = 2 ->
            <<Base64Char(src[1] \div 4),
              Base64Char((src[1] % 4) * 16 + src[2] \div 16),
              Base64Char((src[2] % 16) * 4)>>
      [] OTHER ->
            <<Base64Char(src[1] \div 4),
              Base64Char((src[1] % 4) * 16 + src[2] \div 16),
              Base64Char((src[2] % 16) * 4 + src[3] \div 64),
              Base64Char(src[3] % 64)>> \o EncodeToString(SubSeq(src, 4, Len(src)))

ErrCorruptInput == GoError("illegal base64 data")

\* the bytes of characters that are all of the alphabet
RECURSIVE DecodeSextets(_)
DecodeSextets(s) ==
    LET v == [k \in 1..Len(s) |-> Base64Value(s[k])]
    IN CASE Len(s) = 0 -> <<>>
         [] Len(s) = 2 -> <<v[1] * 4 + v[2] \div 16>>
         [] Len(s) = 3 -> <<v[1] * 4 + v[2] \div 16, (v[2] % 16) * 16 + v[3] \div 4>>
         [] OTHER ->
               <<v[1] * 4 + v[2] \div 16, (v[2] % 16) * 16 + v[3] \div 4,
                 (v[3] % 4) * 64 + v[4]>> \o DecodeSextets(SubSeq(s, 5, Len(s)))

\* base64.RawURLEncoding.DecodeString: a character outside the alphabet (the
\* padding "=" too) and a single character left over are corrupt input
DecodeString64(s) ==
    IF (\E k \in 1..Len(s) : ~IsBase64Char(s[k])) \/ Len(s) % 4 = 1
    THEN Decoded(<<>>, ErrCorruptInput)
    ELSE Decoded(DecodeSextets(s), NoErr)

\* filepath.Ext: the last piece of a name of several pieces
Ext(name) == IF Len(name) >= 2 THEN name[Len(name)] ELSE ""

\* mime.TypeByExtension, by the table built into package mime
TypeByExtension(ext) ==
    CASE ext = ".png" -> "image/png"
      [] ext = ".jpg" -> "image/jpeg"
      [] ext = ".html" -> "text/html; charset=utf-8"
      [] OTHER -> ""

\* fmt.Sprintf("data:%v,%v", mimeType, b64)
DataURL(mimeType, b64) == <<"data:", mimeType, ",">> \o b64

\* NoteResource.MarshalJSON: json.Marshal of struct{Name, Data string}
NoteResourceMarshalJSON(n) ==
    LET ext == Ext(n.Name)
        mimeType == TypeByExtension(ext)
        b64 == EncodeToString(n.Data)
        url == DataURL(mimeType, b64)
    IN Decoded(JObject([Name |-> JString(n.Name), Data |-> JString(url)]), NoErr)

ErrInvalidUnmarshal(type) == [error |-> "json: Unmarshal(non-pointer)", type |-> type]

\* line 156: json.Unmarshal(data, aux), with aux a struct and not a pointer to
\* one: the text is checked for syntax, then the target is refused
UnmarshalAux(data) ==
    LET aux == [Name |-> <<>>, URL |-> <<>>]
    IN IF data.t = "garbage" THEN Decoded(aux, ErrSyntax)
       ELSE Decoded(aux, ErrInvalidUnmarshal("struct { Name string; URL string }"))

HasPrefix(s, prefix) == Len(s) >= 1 /\ s[1] = prefix

\* strings.SplitN(s, ",", 2): what is before the first "," and what is after
SplitN2(s) ==
    IF \E k \in 1..Len(s) : s[k] = ","
    THEN LET first == CHOOSE k \in 1..Len(s) :
                          s[k] = "," /\ \A j \in 1..(k - 1) : s[j] # ","
         IN <<SubSeq(s, 1, first - 1), SubSeq(s, first + 1, Len(s))>>
    ELSE <<s>>

ErrInvalidDataURL(url) == [error |-> "invalid data URL", url |-> url]

ErrDataURL(url) == [error |-> "data URL", url |-> url]

\* NoteResource.UnmarshalJSON on receiver u: the receiver afterwards, and the error
NoteResourceUnmarshalJSON(u, data) ==
    LET a == UnmarshalAux(data)
        aux == a.val
        named == [u EXCEPT !.Name = aux.Name]
        parts == SplitN2(aux.URL)
        resData == DecodeString64(parts[2])
    IN IF a.err # NoErr THEN Decoded(u, a.err)
       ELSE IF ~HasPrefix(aux.URL, "data:") THEN Decoded(named, ErrInvalidDataURL(aux.URL))
       ELSE IF Len(parts) # 2 THEN Decoded(named, ErrDataURL(aux.URL))
       ELSE IF resData.err # NoErr THEN Decoded(named, resData.err)
       ELSE Decoded([named EXCEPT !.Data = resData.val], NoErr)

----------------------------------------------------------------------------
(* The values the codecs and the parsers are called on *)

RECURSIVE ByteStrings(_)
ByteStrings(n) ==
    IF n = 0 THEN {<<>>}
    ELSE ByteStrings(n - 1) \cup
         {Append(b, x) : b \in {y \in ByteStrings(n - 1) : Len(y) = n - 1},
                         x \in {0, 137, 255}}

\* resources as ReadNoteResources makes them
ResourceArgs ==
    {[kind |-> "resource", v |-> NoteResource(name, rel, data)] :
        name \in {<<"a", ".png">>, <<"z", ".txt">>, <<"gone">>},
        rel \in {<<>>, <<<<"sub">>>>},
        data \in ByteStrings(MaxBytes)}

\* JSON texts given to NoteResource.UnmarshalJSON: the object of the encoder,
\* the object with the member names of aux, and texts that are neither
ResourceTexts ==
    {[kind |-> "json", v |-> doc] :
        doc \in {Garbage, JNull, JObject([Name |-> JString(<<"a", ".png">>)])}
                \cup {JObject([Name |-> JString(<<"a", ".png">>), Data |-> JString(url)]) :
                        url \in {DataURL("image/png", <<"i", "V", "A">>)}}
                \cup {JObject([Name |-> JString(<<"a", ".png">>), URL |-> JString(url)]) :
                        url \in {DataURL("image/png", <<"i", "V", "A">>),
                                 DataURL("image/png", <<"i", "V", "A", "=">>),
                                 DataURL("", <<>>),
                                 <<"data:", "image/png">>,
                                 <<"http:", "image/png", ",", "i", "V">>}}}

\* JSON texts given to the parsers: for each shape the whole object, objects
\* lacking members, objects with a member of a wrong type, objects with
\* members no shape knows, and texts that are no object
ParserDocs ==
    LET str == JString("A")
        num == JNumber(1)
        tags == JArray(<<JString("tag")>>)
        cells == JArray(<<JObject([type |-> JString("code"), language |-> JString("go"),
                                   data |-> JString("text")])>>)
        children == JArray(<<JObject([uuid |-> JString("A"), children |-> JArray(<<>>)])>>)
    IN {Garbage, JNull, JArray(<<>>), str, JObject([extra |-> num])}
       \cup {JObject([name |-> str, uuid |-> str]),
             JObject([name |-> str]),
             JObject([uuid |-> str]),
             JObject([name |-> num, uuid |-> str]),
             JObject([name |-> str, uuid |-> tags]),
             JObject([name |-> str, uuid |-> str, extra |-> num])}
       \cup {JObject([created_at |-> num, tags |-> tags, title |-> str,
                      updated_at |-> num, uuid |-> str]),
             JObject([created_at |-> num, tags |-> tags, updated_at |-> num, uuid |-> str]),
             JObject([tags |-> tags, title |-> str, updated_at |-> num, uuid |-> str]),
             JObject([created_at |-> str, tags |-> tags, title |-> str,
                      updated_at |-> num, uuid |-> str]),
             JObject([created_at |-> num, tags |-> str, title |-> str,
                      updated_at |-> num, uuid |-> str]),
             JObject([created_at |-> num, tags |-> tags, title |-> num,
                      updated_at |-> num, uuid |-> str]),
             JObject([created_at |-> num, tags |-> tags, title |-> str,
                      updated_at |-> num, uuid |-> str, extra |-> str])}
       \cup {JObject([cells |-> cells]),
             JObject([cells |-> str]),
             JObject([cells |-> cells, extra |-> str])}
       \cup {JObject([children |-> children]),
             JObject([children |-> num]),
             JObject([children |-> children, extra |-> str])}

\* the streams the parsers read: a text read to its end, or a failing read
ReaderArgs ==
    {[kind |-> "reader", v |-> [data |-> doc, err |-> NoErr]] : doc \in ParserDocs}
    \cup {[kind |-> "reader", v |-> [data |-> <<>>, err |-> ErrIO(<<>>)]]}

\* Unix seconds: around zero, at both ends of int64 and where the seconds
\* counted from year 1 wrap around
TimestampSeconds ==
    (-3..3)
    \cup {WrapInt64(2^(IntBits - 1) + d) : d \in -2..1}
    \cup {WrapInt64(2^(IntBits - 1) - UnixToInternal + d) : d \in -2..1}

\* JSON texts given to TimeStamp.UnmarshalJSON: integers, one beyond int64, a string
SecondsArgs ==
    {[kind |-> "seconds", v |-> JNumber(n)] : n \in TimestampSeconds \cup {2^(IntBits - 1)}}
    \cup {[kind |-> "seconds", v |-> JString("1970-01-01")]}

\* points in time, as time.Time holds them: whole seconds and the nanoseconds
\* after them
TimeArgs ==
    {[kind |-> "time", v |-> [ext |-> TimeUnix(secs).ext, nsec |-> nsec]] :
        secs \in TimestampSeconds, nsec \in {0, 1, 499999999, 500000000, 999999999}}

CodecArgs == ResourceArgs \cup ResourceTexts \cup ReaderArgs \cup SecondsArgs \cup TimeArgs

----------------------------------------------------------------------------
(* Calls of the codecs and of the parsers *)

\* the zero value of a NoteResource, the receiver json.Unmarshal makes
ZeroNoteResource == NoteResource(<<>>, <<>>, <<>>)

CallNoteResourceMarshalJSON ==
    /\ call = Nil
    /\ arg.kind = "resource"
    /\ call' = Called("NoteResource.MarshalJSON", FALSE)
    /\ LET r == NoteResourceMarshalJSON(arg.v)
       IN result' = Returned(r.val, r.err, <<>>)
    /\ UNCHANGED <<fs, arg, loads, walkVars>>

\* on a JSON text, or on the text MarshalJSON has just returned
CallNoteResourceUnmarshalJSON ==
    /\ IF call = Nil THEN arg.kind = "json"
       ELSE call.fn = "NoteResource.MarshalJSON"
    /\ call' = Called("NoteResource.UnmarshalJSON", FALSE)
    /\ LET r == NoteResourceUnmarshalJSON(ZeroNoteResource,
                                          IF call = Nil THEN arg.v ELSE result.val)
       IN result' = Returned(r.val, r.err, <<>>)
    /\ UNCHANGED <<fs, arg, loads, walkVars>>

CallParseLibraryMetadata ==
    /\ call = Nil
    /\ arg.kind = "reader"
    /\ call' = Called("ParseLibraryMetadata", FALSE)
    /\ LET r == ParseLibraryMetadata(arg.v)
       IN result' = Returned(r.val, r.err, <<>>)
    /\ UNCHANGED <<fs, arg, loads, walkVars>>

CallParseNotebookMetadata ==
    /\ call = Nil
    /\ arg.kind = "reader"
    /\ call' = Called("ParseNotebookMetadata", FALSE)
    /\ LET r == ParseNotebookMetadata(arg.v)
       IN result' = Returned(r.val, r.err, <<>>)
    /\ UNCHANGED <<fs, arg, loads, walkVars>>

CallParseNoteMetadata ==
    /\ call = Nil
    /\ arg.kind = "reader"
    /\ call' = Called("ParseNoteMetadata", FALSE)
    /\ LET r == ParseNoteMetadata(arg.v)
       IN result' = Returned(r.val, r.err, <<>>)
    /\ UNCHANGED <<fs, arg, loads, walkVars>>

CallParseContent ==
    /\ call = Nil
    /\ arg.kind = "reader"
    /\ call' = Called("ParseContent", FALSE)
    /\ LET r == ParseContent(arg.v)
       IN result' = Returned(r.val, r.err, <<>>)
    /\ UNCHANGED <<fs, arg, loads, walkVars>>

\* on a point in time, or on the TimeStamp UnmarshalJSON has just decoded
CallTimeStampMarshalJSON ==
    /\ IF call = Nil THEN arg.kind = "time"
       ELSE /\ call.fn = "TimeStamp.UnmarshalJSON"
            /\ arg.kind = "seconds"
            /\ result.err = NoErr
    /\ call' = Called("TimeStamp.MarshalJSON", FALSE)
    /\ LET r == TimeStampMarshalJSON(IF call = Nil THEN arg.v ELSE result.val)
       IN result' = Returned(r.val, r.err, <<>>)
    /\ UNCHANGED <<fs, arg, loads, walkVars>>

\* on a JSON text, or on the text MarshalJSON has just returned
CallTimeStampUnmarshalJSON ==
    /\ IF call = Nil THEN arg.kind = "seconds"
       ELSE call.fn = "TimeStamp.MarshalJSON" /\ arg.kind = "time"
    /\ call' = Called("TimeStamp.UnmarshalJSON", FALSE)
    /\ LET r == TimeStampUnmarshalJSON(IF call = Nil THEN arg.v ELSE result.val)
       IN result' = Returned(r.val, r.err, <<>>)
    /\ UNCHANGED <<fs, arg, loads, walkVars>>

NextCodec ==
    \/ CallNoteResourceMarshalJSON
    \/ CallNoteResourceUnmarshalJSON
    \/ CallParseLibraryMetadata
    \/ CallParseNotebookMetadata
    \/ CallParseNoteMetadata
    \/ CallParseContent
    \/ CallTimeStampMarshalJSON
    \/ CallTimeStampUnmarshalJSON

InitCodec ==
    /\ arg \in CodecArgs
    /\ fs = Nil
    /\ loads = <<>>
    /\ call = Nil
    /\ result = Nil
    /\ lib = Nil
    /\ notebooks = <<>>
    /\ heap = <<>>
    /\ stack = <<>>
    /\ rootIdx = 1
    /\ retv = NoPending
    /\ visits = <<>>
    /\ wpc = "idle"
    /\ wret = NoErr

SpecCodec == InitCodec /\ [][NextCodec]_vars

----------------------------------------------------------------------------
(* Loading a library and walking it, as cmd/quiver_to_markdown does *)

\* main.go lines 74-83: the library ReadLibrary returned without error is the
\* one WalkNotebooksHierarchy is called on
WalkLoaded ==
    /\ wpc = "main"
    /\ Finished("ReadLibrary")
    /\ Succeeded
    /\ lib' = result.val
    /\ wpc' = "idle"
    /\ UNCHANGED <<notebooks, heap, stack, rootIdx, retv, visits, wret, loadVars>>

NextLoadWalk ==
    \/ CallReadLibrary
    \/ WalkLoaded
    \/ WalkStart
    \/ RootCall
    \/ RootReturned
    \/ WalkReturn
    \/ CallVisitor
    \/ AppendParents
    \/ Recurse
    \/ ChildReturned
    \/ NodeReturn

InitLoadWalk ==
    /\ fs \in LibraryRoots
    /\ arg = Nil
    /\ loads = <<>>
    /\ call = Nil
    /\ result = Nil
    /\ lib = Nil
    /\ notebooks = <<>>
    /\ heap = <<>>
    /\ stack = <<>>
    /\ rootIdx = 1
    /\ retv = NoPending
    /\ visits = <<>>
    /\ wpc = "main"
    /\ wret = NoErr

SpecLoadWalk == InitLoadWalk /\ [][NextLoadWalk]_vars

----------------------------------------------------------------------------
(* ReadLibrary calls running in goroutines, one loop iteration a step *)

\* the goroutines that load at the same time, as the parallel tests do
Goroutines == 1..MaxGoroutines

\* everything but the heap and the locals of the loads
restVars == <<lib, notebooks, stack, rootIdx, retv, visits, wpc, wret, fs, arg, call, result>>

\* the locals of a ReadLibrary call on the library called name: files, the
\* position i of the range loop, metadata (a pointer, 0 is nil), notebooks (a
\* slice of pointers) and what it returned
LoadFrame(name, loadResources) ==
    [name |-> name, loadResources |-> loadResources, pc |-> "start", files |-> <<>>,
     i |-> 1, metadata |-> 0, notebooks |-> EmptySlice,
     ret |-> [val |-> 0, err |-> NoErr, panic |-> Nil]]

LibraryPath(g) == <<fs.name, loads[g].name>>

LibraryNode(g) == Resolve(fs, loads[g].name)

\* a package-level slice that every call starts from where the last one left it
MakeSlice_Pooled(h, n) ==
    IF Len(h) > 0
    THEN [heap |-> h,
          slice |-> [arr |-> 1, cap |-> Len(h[1]),
                     len |-> Cardinality({k \in 1..Len(h[1]) : h[1][k] # 0})]]
    ELSE [heap |-> Append(h, [k \in 1..n |-> 0]),
          slice |-> [arr |-> Len(h) + 1, len |-> 0, cap |-> n]]

\* a package-level array that every call fills from its start
MakeSlice_Shared(h, n) ==
    IF Len(h) > 0 /\ Len(h[1]) >= n
    THEN [heap |-> h, slice |-> [arr |-> 1, len |-> 0, cap |-> n]]
    ELSE [heap |-> Append(h, [k \in 1..n |-> 0]),
          slice |-> [arr |-> Len(h) + 1, len |-> 0, cap |-> n]]

\* line 277, make([]*Notebook, 0, n): a new backing array of n nil pointers
MakeSlice(h, n) ==
    [heap |-> Append(h, [k \in 1..n |-> 0]),
     slice |-> [arr |-> Len(h) + 1, len |-> 0, cap |-> n]]

\* an unrecovered panic in one goroutine ends the program
NoPanic == \A g \in Goroutines : loads[g].pc # "panic"

\* return val, err
LoadExit(g, val, err) ==
    loads' = [loads EXCEPT ![g].pc = "done",
                           ![g].ret = [val |-> val, err |-> err, panic |-> Nil]]

\* lines 265-277: v is what IsLibrary returned, ls what ioutil.ReadDir did
LoadStarted(g, v, ls) ==
    IF v.err # NoErr THEN LoadExit(g, 0, v.err) /\ UNCHANGED heap
    ELSE IF ls.err # NoErr THEN LoadExit(g, 0, ls.err) /\ UNCHANGED heap
    ELSE LET m == MakeSlice(heap, Len(ls.files))
         IN /\ heap' = m.heap
            /\ loads' = [loads EXCEPT ![g].pc = "loop", ![g].files = ls.files,
                                      ![g].notebooks = m.slice]

LoadStart(g) ==
    /\ NoPanic
    /\ loads[g].pc = "start"
    /\ LoadStarted(g, IsLibrary(LibraryNode(g), LibraryPath(g)),
                   ReadDir(LibraryNode(g), LibraryPath(g)))
    /\ UNCHANGED restVars

\* lines 283-286: m is what ReadLibraryMetadata returned, a new LibraryMetadata
LoadedMetadata(g, m) ==
    IF m.err # NoErr THEN LoadExit(g, 0, m.err) /\ UNCHANGED heap
    ELSE /\ heap' = Append(heap, m.val)
         /\ loads' = [loads EXCEPT ![g].metadata = Len(heap) + 1, ![g].i = @ + 1]

LoadMetadata(g) ==
    /\ NoPanic
    /\ loads[g].pc = "loop"
    /\ loads[g].i <= Len(loads[g].files)
    /\ IsLibraryMetadataEntry(loads[g].files[loads[g].i])
    /\ LoadedMetadata(g, ReadLibraryMetadata(loads[g].files[loads[g].i],
                             Join(LibraryPath(g), loads[g].files[loads[g].i].name)))
    /\ UNCHANGED restVars

\* lines 289-293: n is what ReadNotebook returned, a new Notebook, or the panic
\* it ended in; append writes the pointer into the backing array of notebooks
LoadedNotebook(g, n) ==
    IF n.panic # Nil
    THEN /\ loads' = [loads EXCEPT ![g].pc = "panic",
                                   ![g].ret = [val |-> 0, err |-> NoErr, panic |-> n.panic]]
         /\ UNCHANGED heap
    ELSE IF n.err # NoErr THEN LoadExit(g, 0, n.err) /\ UNCHANGED heap
    ELSE \E o \in GoAppend(Append(heap, n.val), loads[g].notebooks, Len(heap) + 1) :
            /\ heap' = o.heap
            /\ loads' = [loads EXCEPT ![g].notebooks = o.slice, ![g].i = @ + 1]

LoadNotebook(g) ==
    /\ NoPanic
    /\ loads[g].pc = "loop"
    /\ loads[g].i <= Len(loads[g].files)
    /\ ~IsLibraryMetadataEntry(loads[g].files[loads[g].i])
    /\ LoadedNotebook(g, ReadNotebook(loads[g].files[loads[g].i],
                             Join(LibraryPath(g), loads[g].files[loads[g].i].name),
                             loads[g].loadResources))
    /\ UNCHANGED restVars

\* line 297: return &Library{metadata, notebooks}, nil
LoadReturn(g) ==
    /\ NoPanic
    /\ loads[g].pc = "loop"
    /\ loads[g].i > Len(loads[g].files)
    /\ heap' = Append(heap, Library(loads[g].metadata, loads[g].notebooks))
    /\ LoadExit(g, Len(heap) + 1, NoErr)
    /\ UNCHANGED restVars

NextLoads ==
    \E g \in Goroutines :
        \/ LoadStart(g)
        \/ LoadMetadata(g)
        \/ LoadNotebook(g)
        \/ LoadReturn(g)

\* the library trees the goroutines load: with and without meta.json, with
\* notebooks that load, that fail and that make ReadNotebook panic
LoadedLibraries(name) ==
    LET meta == JSONFile(MetaJSON, LibraryMetadataDoc)
        good == JSONFile(MetaJSON, NotebookMetadataDoc("A"))
        note == NoteDir("A", GoodNoteFiles("A") \cup
                   {Dir(ResourcesDir, "ok", {File(<<"a", ".png">>, "ok", "ok", <<137, 80>>)})})
        first == Dir(NotebookName("A"), "ok", {good, note})
        last == Dir(NotebookName("z"), "ok", {JSONFile(MetaJSON, NotebookMetadataDoc("z"))})
        bare == Dir(NotebookName("z"), "ok", {NoteDir("A", GoodNoteFiles("A"))})
        denied == Dir(NotebookName("z"), "denied", {})
    IN {Dir(name, "ok", es) :
            es \in {{first}, {meta, first}, {meta, bare}, {meta, denied}, {meta, last, first}}}

OtherLibraryName == <<"other", ".qvlibrary">>

\* the directory the libraries are in
LibrariesDirs ==
    {Dir(<<"tmp">>, "ok", {l, o}) :
        l \in LoadedLibraries(LibraryName),
        o \in {Dir(OtherLibraryName, "ok", es) :
                  es \in {{JSONFile(MetaJSON, LibraryMetadataDoc),
                           Dir(NotebookName("D"), "ok",
                               {JSONFile(MetaJSON, NotebookMetadataDoc("D"))})}}}}

InitLoads ==
    /\ fs \in LibrariesDirs
    /\ loads \in {l \in [Goroutines -> {LoadFrame(n, b) :
                                            n \in {LibraryName, OtherLibraryName},
                                            b \in BOOLEAN}] :
                     l[1].name = LibraryName}
    /\ heap = <<>>
    /\ arg = Nil
    /\ call = Nil
    /\ result = Nil
    /\ lib = Nil
    /\ notebooks = <<>>
    /\ stack = <<>>
    /\ rootIdx = 1
    /\ retv = NoPending
    /\ visits = <<>>
    /\ wpc = "idle"
    /\ wret = NoErr

SpecLoads == InitLoads /\ [][NextLoads]_vars

----------------------------------------------------------------------------
(* Claims about the loader and the validators *)

\* the entries of a directory other than meta.json, in enumeration order
OtherEntries(d) == SortByName({e \in d.entries : e.name # MetaJSON})

LastOf(seq) == seq[Len(seq)]

\* the path of the resources directory of a note, as opposed to what is below it
IsResourcesRoot(path) ==
    /\ Len(path) >= 2
    /\ LastOf(path) = ResourcesDir
    /\ LastOf(path[Len(path) - 1]) = ".qvnote"

\* the one failure the loader is meant to tolerate: a note without resources
MissingResourcesDir(ev) ==
    ev.op = "stat" /\ IsResourcesRoot(ev.path) /\ IsNotExist(ev.err)

\* C1: ReadLibrary is all-or-nothing: a step that fails at any depth (other
\* than finding no resources directory) makes it return nil and that error, and
\* it never returns a Library together with an error.
C1_AllOrNothing ==
    (Finished("ReadLibrary") /\ result.panic = Nil) =>
        /\ result.val # Nil => result.err = NoErr
        /\ result.err # NoErr => result.val = Nil
        /\ \A k \in 1..Len(result.trace) :
              (result.trace[k].err # NoErr /\ ~MissingResourcesDir(result.trace[k]))
                  => result.val = Nil /\ result.err = result.trace[k].err

\* a note directory with both records and nothing that can fail below resources
HealthyNote(e) ==
    /\ e.kind = "dir"
    /\ LastOf(e.name) = ".qvnote"
    /\ e.perm = "ok"
    /\ Resolve(e, MetaJSON) = JSONFile(MetaJSON, NoteMetadataDoc(e.name[1]))
    /\ Resolve(e, ContentJSON) = JSONFile(ContentJSON, NoteContentDoc)
    /\ LET r == Resolve(e, ResourcesDir)
       IN \/ r.kind = "absent"
          \/ /\ r.kind = "dir"
             /\ r.perm = "ok"
             /\ \A x \in r.entries : x.kind = "file" /\ x.perm = "ok" /\ x.read = "ok"

\* a notebook directory with one meta.json and otherwise healthy notes
HealthyNotebook(d) ==
    /\ d.kind = "dir"
    /\ LastOf(d.name) = ".qvnotebook"
    /\ d.perm = "ok"
    /\ Resolve(d, MetaJSON) = JSONFile(MetaJSON, NotebookMetadataDoc(d.name[1]))
    /\ \A e \in d.entries : e.name # MetaJSON => HealthyNote(e)

\* C6: a notebook directory with one meta.json and n valid notes loads, wherever
\* meta.json falls in the enumeration, into n notes in enumeration order, none
\* absent, with the name and UUID of meta.json.
C6_NotebookOfNNotes ==
    (Finished("ReadNotebook") /\ HealthyNotebook(fs)) =>
        /\ Succeeded
        /\ result.val.NotebookMetadata = NotebookMetadata(fs.name[1], fs.name[1])
        /\ Len(result.val.Notes) = Len(OtherEntries(fs))
        /\ \A k \in 1..Len(result.val.Notes) :
              /\ result.val.Notes[k] # Nil
              /\ result.val.Notes[k].NoteMetadata.UUID = OtherEntries(fs)[k].name[1]

\* an entry ReadNotebook accepts as a notebook directory
IsNotebookDir(e) == e.kind = "dir" /\ LastOf(e.name) = ".qvnotebook"

NoteComplete(n) == n # Nil /\ n.NoteMetadata # Nil /\ n.NoteContent # Nil

NotebookComplete(nb) ==
    /\ nb # Nil
    /\ nb.NotebookMetadata # Nil
    /\ \A k \in 1..Len(nb.Notes) : NoteComplete(nb.Notes[k])

\* C8: what ReadLibrary, ReadNotebook and ReadNote return without error has a
\* metadata record on every Notebook and a metadata and a content record on
\* every Note; a notebook directory without meta.json is an error.
C8_RecordsPresent ==
    /\ (Finished("ReadNote") /\ Succeeded) => NoteComplete(result.val)
    /\ (Finished("ReadNotebook") /\ Succeeded) => NotebookComplete(result.val)
    /\ (Finished("ReadLibrary") /\ Succeeded) =>
          \A k \in 1..Len(result.val.Notebooks) :
              NotebookComplete(result.val.Notebooks[k])
    /\ (Finished("ReadNotebook") /\ fs.kind = "dir"
          /\ Resolve(fs, MetaJSON).kind = "absent") => ~Succeeded
    /\ (Finished("ReadNote") /\ fs.kind = "dir"
          /\ \/ Resolve(fs, MetaJSON).kind = "absent"
             \/ Resolve(fs, ContentJSON).kind = "absent") => ~Succeeded

RoleOf(fn) ==
    CASE fn = "IsLibrary" -> [suffix |-> ".qvlibrary", role |-> "the Quiver Library"]
      [] fn = "IsNotebook" -> [suffix |-> ".qvnotebook", role |-> "a Quiver Notebook"]
      [] fn = "IsNote" -> [suffix |-> ".qvnote", role |-> "a Quiver Note"]

\* C9: a validator answers not-found for a path that does not exist, else
\* not-a-directory for what is no directory, else wrong-extension for a name
\* without the suffix of the role, else true and nil; true only with nil; and
\* it does nothing to the file system but look at the path.
C9_ValidatorOrder ==
    (call # Nil /\ call.fn \in {"IsLibrary", "IsNotebook", "IsNote"}) =>
        LET r == RoleOf(call.fn)
        IN /\ result.panic = Nil
           /\ fs.kind \in {"absent", "dangling"} =>
                result.val = FALSE /\ result.err = ErrNotExist(RootPath)
           /\ fs.kind = "file" =>
                result.val = FALSE /\ result.err = ErrNotDirectory(r.role)
           /\ (fs.kind = "dir" /\ LastOf(fs.name) # r.suffix) =>
                result.val = FALSE /\ result.err = ErrExtension(r.role, <<r.suffix>>)
           /\ (fs.kind = "dir" /\ LastOf(fs.name) = r.suffix) =>
                result.val = TRUE /\ result.err = NoErr
           /\ result.val = TRUE => result.err = NoErr
           /\ \A k \in 1..Len(result.trace) :
                result.trace[k].op \in {"stat", "check"} /\ result.trace[k].path = RootPath

\* a plain file whose name lacks the suffix of the role was refused as no
\* directory, not for its extension
C9_Witness ==
    /\ call # Nil
    /\ call.fn \in {"IsLibrary", "IsNotebook", "IsNote"}
    /\ fs.kind = "file"
    /\ LastOf(fs.name) # RoleOf(call.fn).suffix
    /\ result.err = ErrNotDirectory(RoleOf(call.fn).role)

\* a file operation made on the resources directory of a note or below it
UnderResources(path) ==
    \E k \in 2..Len(path) : IsResourcesRoot(SubSeq(path, 1, k))

\* C10: with loadResources a note without resources directory loads with no
\* resource; any other failure below resources fails ReadNote with that error,
\* and no Note is returned with its resources dropped.
C10_ResourceFailuresPropagate ==
    (Finished("ReadNote") /\ call.loadResources
        /\ HealthyNote([fs EXCEPT !.entries = {e \in @ : e.name # ResourcesDir}])) =>
        /\ Resolve(fs, ResourcesDir).kind = "absent" =>
              Succeeded /\ result.val.Resources = <<>>
        /\ \A k \in 1..Len(result.trace) :
              (/\ result.trace[k].err # NoErr
               /\ UnderResources(result.trace[k].path)
               /\ ~MissingResourcesDir(result.trace[k]))
                  => result.val = Nil /\ result.err = result.trace[k].err

----------------------------------------------------------------------------
(* Claims about loads without resources *)

\* the tree without the resources entry of any of its note directories
RECURSIVE StripResources(_)
StripResources(node) ==
    IF node.kind # "dir" THEN node
    ELSE [node EXCEPT !.entries =
            {StripResources(e) :
                e \in {x \in node.entries :
                          ~(LastOf(node.name) = ".qvnote" /\ x.name = ResourcesDir)}}]

\* the notes of what a load returned
\* what the function of the call returns on another tree of the same name
Rerun(tree) ==
    CASE call.fn = "ReadNote" -> ReadNote(tree, RootPath, call.loadResources)
      [] call.fn = "ReadNotebook" -> ReadNotebook(tree, RootPath, call.loadResources)
      [] call.fn = "ReadLibrary" -> ReadLibrary(tree, RootPath, call.loadResources)

IsLoad == call # Nil /\ call.fn \in {"ReadNote", "ReadNotebook", "ReadLibrary"}

NoResources(n) == n # Nil => n.Resources = <<>>

\* C11: a load with loadResources=false makes no file operation on a resources
\* directory or below it, returns notes without resources, and returns what it
\* returns on the tree with every resources directory taken away.
C11_ResourcesUntouched ==
    (IsLoad /\ ~call.loadResources) =>
        /\ \A k \in 1..Len(result.trace) : ~UnderResources(result.trace[k].path)
        /\ result = Rerun(StripResources(fs))
        /\ Succeeded =>
              CASE call.fn = "ReadNote" -> NoResources(result.val)
                [] call.fn = "ReadNotebook" ->
                      \A k \in 1..Len(result.val.Notes) : NoResources(result.val.Notes[k])
                [] call.fn = "ReadLibrary" ->
                      \A b \in 1..Len(result.val.Notebooks) :
                          \A k \in 1..Len(result.val.Notebooks[b].Notes) :
                              NoResources(result.val.Notebooks[b].Notes[k])

\* a note whose resources entry is a plain file, and a library with a note
\* whose resources hold a dangling entry, were loaded without resources
C11_Witness ==
    /\ IsLoad
    /\ ~call.loadResources
    /\ Succeeded
    /\ \/ call.fn = "ReadNote" /\ Resolve(fs, ResourcesDir).kind = "file"
       \/ /\ call.fn = "ReadLibrary"
          /\ StripResources(fs) # fs
          /\ Len(result.val.Notebooks) > 0

----------------------------------------------------------------------------
(* Claims about ReadNoteResources *)

RECURSIVE ConcatAll(_)
ConcatAll(seqs) == IF seqs = <<>> THEN <<>> ELSE Head(seqs) \o ConcatAll(Tail(seqs))

\* the regular files under a directory, depth first in enumeration order, each
\* with its base name, the directory names leading to it and its content
RECURSIVE FilesUnder(_, _)
FilesUnder(dir, rel) ==
    LET es == SortByName(dir.entries)
    IN ConcatAll([k \in 1..Len(es) |->
            IF es[k].kind = "dir" THEN FilesUnder(es[k], Append(rel, es[k].name))
            ELSE <<[Name |-> es[k].name, Rel |-> rel, Data |-> es[k].data]>>])

\* a tree of directories that list and of regular files that open and read
RECURSIVE AllReadable(_)
AllReadable(node) ==
    \/ node.kind = "file" /\ node.perm = "ok" /\ node.read = "ok"
    \/ /\ node.kind = "dir"
       /\ node.perm = "ok"
       /\ \A e \in node.entries : AllReadable(e)

\* C12: on a readable resources tree ReadNoteResources returns one NoteResource
\* per regular file, depth first in enumeration order, with the base name of
\* the file, the directory names from the root to it (none directly under the
\* root) and its whole content.
C12_OneResourcePerFile ==
    (Finished("ReadNoteResources") /\ fs.kind = "dir" /\ AllReadable(fs)) =>
        /\ Succeeded
        /\ result.val = FilesUnder(fs, <<>>)

\* the file of a sub-directory was returned before a later file of the root
C12_Witness ==
    /\ Finished("ReadNoteResources")
    /\ Succeeded
    /\ Len(result.val) = 2
    /\ result.val[1].Rel = <<<<"sub">>>>
    /\ result.val[1].Data # <<>>
    /\ result.val[2].Rel = <<>>

----------------------------------------------------------------------------
(* Claims about the codecs and the parsers *)

\* C13: NoteResource.UnmarshalJSON applied to what NoteResource.MarshalJSON
\* returned succeeds and recovers the Name and the Data of the resource.
C13_ResourceRoundTrip ==
    (call # Nil /\ call.fn = "NoteResource.UnmarshalJSON" /\ arg.kind = "resource") =>
        /\ result.err = NoErr
        /\ result.val.Name = arg.v.Name
        /\ result.val.Data = arg.v.Data

IsParse ==
    /\ call # Nil
    /\ call.fn \in {"ParseLibraryMetadata", "ParseNotebookMetadata", "ParseNoteMetadata",
                     "ParseContent"}
    /\ arg.v.err = NoErr

\* the members of the shape a parser reads, each with the type of its JSON value
ShapeOf(fn) ==
    CASE fn = "ParseLibraryMetadata" -> [children |-> "array"]
      [] fn = "ParseNotebookMetadata" -> [name |-> "string", uuid |-> "string"]
      [] fn = "ParseNoteMetadata" ->
            [created_at |-> "number", tags |-> "array", title |-> "string",
             updated_at |-> "number", uuid |-> "string"]
      [] fn = "ParseContent" -> [cells |-> "array"]

LacksMember(fn, doc) == \E key \in DOMAIN ShapeOf(fn) : key \notin DOMAIN doc.v

HasWrongType(fn, doc) ==
    \E key \in DOMAIN ShapeOf(fn) \cap DOMAIN doc.v : doc.v[key].t # ShapeOf(fn)[key]

Refused == result.err # NoErr /\ result.val = Nil

\* C14: a parser returns an error and no record for a text with a syntax
\* error, for an object lacking a member of its shape and for an object with a
\* member of a wrong type; it returns the record when the object has the
\* members of its shape, whatever other members it has.
C14_ParsersValidate ==
    IsParse =>
        LET doc == arg.v.data
        IN /\ doc.t = "garbage" => Refused
           /\ (doc.t = "object" /\ LacksMember(call.fn, doc)) => Refused
           /\ (doc.t = "object" /\ HasWrongType(call.fn, doc)) => Refused
           /\ (doc.t = "object" /\ ~LacksMember(call.fn, doc)
                 /\ ~HasWrongType(call.fn, doc)) => Succeeded /\ result.val # Nil

\* C15: encoding the TimeStamp decoded from an int64 number of Unix seconds
\* gives that number again, and decoding the encoding of a point in time gives
\* the same whole seconds with nothing after them: the sub-second part is
\* dropped, never rounded up.
C15_TimestampRoundTrip ==
    /\ (call # Nil /\ call.fn = "TimeStamp.MarshalJSON" /\ arg.kind = "seconds") =>
          result.err = NoErr /\ result.val = arg.v
    /\ (call # Nil /\ call.fn = "TimeStamp.UnmarshalJSON" /\ arg.kind = "time") =>
          result.err = NoErr /\ result.val = [ext |-> arg.v.ext, nsec |-> 0]
    /\ (call # Nil /\ call.fn = "TimeStamp.UnmarshalJSON" /\ arg.kind = "seconds"
          /\ arg.v.t = "number" /\ arg.v.n \in Int64) => result.err = NoErr

\* a point in time before the epoch, one nanosecond short of a whole second,
\* was encoded and decoded
C15_Witness ==
    /\ call # Nil
    /\ call.fn = "TimeStamp.UnmarshalJSON"
    /\ arg.kind = "time"
    /\ arg.v.nsec = 999999999
    /\ arg.v.ext = TimeUnix(-2).ext
    /\ result.val = TimeUnix(-2)

----------------------------------------------------------------------------
(* Claims about file handles *)

\* the file handles open after the first k file operations of a call
RECURSIVE OpenHandles(_, _)
OpenHandles(trace, k) ==
    IF k = 0 THEN 0
    ELSE OpenHandles(trace, k - 1)
         + (CASE trace[k].op = "open" /\ trace[k].err = NoErr -> 1
              [] trace[k].op = "close" -> -1
              [] OTHER -> 0)

\* C18: during a load at most one file is open at a time, a file is closed
\* before the next is opened, and none is open when the load returns, with a
\* result or with an error.
C18_OneHandleAtATime ==
    (IsLoad \/ Finished("ReadNoteResources")) =>
        /\ \A k \in 1..Len(result.trace) : OpenHandles(result.trace, k) \in {0, 1}
        /\ OpenHandles(result.trace, Len(result.trace)) = 0

\* a load failed reading the third file it opened
C18_Witness ==
    /\ Finished("ReadNote")
    /\ result.err # NoErr
    /\ \E k \in 1..Len(result.trace) :
          result.trace[k].op = "read" /\ result.trace[k].err = result.err
    /\ Cardinality({k \in 1..Len(result.trace) :
                       result.trace[k].op = "open" /\ result.trace[k].err = NoErr}) >= 3

----------------------------------------------------------------------------
(* Claims about repeated and concurrent loads *)

\* a load that returned or ended in a panic
Ended(g) == loads[g].pc \in {"done", "panic"}

\* the object graph behind the *Library a load returned, as one value
LoadedValue(h, p) ==
    IF p = 0 THEN Nil
    ELSE Library(IF h[p].LibraryMetadata = 0 THEN Nil ELSE h[h[p].LibraryMetadata],
                 [k \in 1..h[p].Notebooks.len |-> h[h[h[p].Notebooks.arr][k]]])

Outcome(g) ==
    [val |-> LoadedValue(heap, loads[g].ret.val), err |-> loads[g].ret.err,
     panic |-> loads[g].ret.panic]

\* what the same call returns when nothing else runs
AloneOutcome(r) == [val |-> r.val, err |-> r.err, panic |-> r.panic]

Alone(g) ==
    AloneOutcome(ReadLibrary(LibraryNode(g), LibraryPath(g), loads[g].loadResources))

\* the cells of the heap a load can reach from its locals and its result
Reach(h, f) ==
    (IF f.metadata = 0 THEN {} ELSE {f.metadata})
    \cup (IF f.notebooks.arr = 0 THEN {}
          ELSE {f.notebooks.arr} \cup {h[f.notebooks.arr][k] : k \in 1..f.notebooks.len})
    \cup (IF f.ret.val = 0 THEN {} ELSE {f.ret.val})

Loaded(g) ==
    /\ loads[g].pc = "done"
    /\ loads[g].ret.val # 0
    /\ loads[g].notebooks.len >= 1

\* C16: two ReadLibrary calls on the same unchanged tree with the same
\* loadResources flag return structurally equal results or the same failure,
\* whether the second starts after the first returned or not.
C16_Deterministic ==
    \A g, o \in Goroutines :
        (/\ Ended(g) /\ Ended(o)
         /\ loads[g].name = loads[o].name
         /\ loads[g].loadResources = loads[o].loadResources)
        => Outcome(g) = Outcome(o)

\* the second call started after the first had returned its library
C16_Witness ==
    /\ Loaded(1) /\ Loaded(2)
    /\ loads[1].name = loads[2].name
    /\ loads[1].loadResources = loads[2].loadResources
    /\ loads[1].ret.val < loads[2].notebooks.arr

C17_SameAsAlone == \A g \in Goroutines : Ended(g) => Outcome(g) = Alone(g)

C17_Disjoint ==
    \A g, o \in Goroutines :
        g # o => Reach(heap, loads[g]) \cap Reach(heap, loads[o]) = {}

C17_OwnWrites ==
    \A k \in 1..Len(heap) :
        heap'[k] # heap[k] =>
            \E g \in Goroutines : loads'[g] # loads[g] /\ k \in Reach(heap, loads[g])

\* C17: under every interleaving a load returns what it returns when run
\* alone, no cell of the heap is reachable from two loads, and a step of one
\* load writes only cells that load can reach.
C17_LoadsIsolated ==
    /\ [](C17_SameAsAlone /\ C17_Disjoint)
    /\ [][C17_OwnWrites]_vars

\* two loads of different trees whose steps interleaved: the second made its
\* slice after the first did and before the first returned
C17_Witness ==
    /\ Loaded(1) /\ Loaded(2)
    /\ loads[1].name # loads[2].name
    /\ loads[1].notebooks.arr < loads[2].notebooks.arr
    /\ loads[2].notebooks.arr < loads[1].ret.val

----------------------------------------------------------------------------
(* Claims about walking a loaded library *)

\* C19: a Library that ReadLibrary returns without error has a LibraryMetadata,
\* and WalkNotebooksHierarchy on it never ends in a runtime fault and, with a
\* visitor that never fails, returns nil.
C19_LoadedLibraryWalks ==
    /\ (Finished("ReadLibrary") /\ Succeeded) => result.val.LibraryMetadata # Nil
    /\ wpc # "panic"
    /\ (wpc = "returned" /\ NoVisitorFailure) => wret = NoErr

====
